---------------------------- MODULE Spec2Model ----------------------------
(***************************************************************************)
(* Model of the live-interview core of aceInterview-backend:               *)
(*   - the WebSocket connection handler (app/ws/ws_live_interview.py) with *)
(*     its generation tasks (app/ws/ai_handler.py) and the process-wide    *)
(*     session store (app/ws/session_manager.py)          -- Spec          *)
(*   - the streaming answer generator (app/services/qa.py, app/qa.py) and  *)
(*     the event-forwarding loop of run_ai_for_transcript -- SpecStream    *)
(*   - the utterance segmenter (app/services/transcript.py) -- SpecSeg     *)
(***************************************************************************)
EXTENDS Integers, Sequences, FiniteSets, TLC

(***************************************************************************)
(* Bounds of the model.                                                    *)
(***************************************************************************)
MaxTasks == 2
MaxLoopMsgs == 1
MaxOut == 4
MaxChunk == 2
MaxCalls == 4
MaxTicks == 4
MaxTurns == 2
MaxLookups == 2
MaxFed == 3
MaxAppends == 11

\* time.time() at construction, in half seconds; far from 0
Epoch == 100
\* pause_interval default of 2 seconds
DefaultPause == 4

SessionIds == {1}
\* a session id no create_session call ever returned (a stale or mistyped id)
UnknownSid == 2
None == 0

VARIABLES
  SESSION_CACHE,          \* session_manager.SESSION_CACHE: the session ids it holds
  prev_questions,         \* per session object: its "prev_questions" deque
  created,                \* ids already handed out by create_session (uuid4: never reused)
  connection_state,       \* per connection: ConnectionState
  loop_pc,                \* per connection: position of websocket_live_interview
  current_session_id,     \* per connection: local current_session_id
  transcript_accumulator, \* per connection: sid owning the bound accumulator, or None
  ai_task,                \* per connection: task id of local ai_task, or None
  tasks,                  \* every generation task ever created, by task id
  sent,                   \* per connection: messages written to the socket, in order
  \* ---- one streamed turn: _stream_gen and the loop that forwards its events
  skip_check,             \* TRUE: app/services/qa.py (_parse_inc tests SKIP), FALSE: app/qa.py
  transcript,             \* the utterance of the turn
  buf,                    \* _stream_gen: accumulated provider output
  emitted_len,            \* _stream_gen: answer characters already yielded
  q_sent,                 \* _stream_gen: q_sent / question_sent
  parsed_q,               \* _stream_gen: parsed_q / parsed_question
  ans_started,            \* _stream_gen: ans_started / answer_started
  q_flag,                 \* _stream_gen: q_flag / _q_emitted
  gen_state,              \* "idle", "streaming", "done" (done yielded), "error"
  events,                 \* every event _stream_gen yielded, in order
  final,                  \* the done event
  fwd_prev,               \* prev_questions as seen by the forwarding loop
  fwd_sent,               \* messages the forwarding loop sent, in order
  \* ---- one request to process_transcript_with_ai
  stream_obj,             \* what the handler's call with stream=True evaluated to
  req,                    \* its arguments: stream, and whether settings is non-empty
  provider_calls,         \* calls made to the completion provider
  provider_failure,       \* "none", "timeout" or "transport": how the provider call failed
  turn_sent,              \* what the non-streaming block of run_ai_for_transcript sent
  \* ---- one TranscriptAccumulator
  pause_threshold,        \* self.pause_threshold, in half seconds
  current_paragraph,      \* self.current_paragraph
  last_speech_time,       \* self.last_speech_time, in half seconds
  is_speaking,            \* self.is_speaking
  waiting_for_continuation, \* self.waiting_for_continuation
  complete_paragraphs,    \* self.complete_paragraphs
  now,                    \* time.time(), in half seconds
  calls,                  \* calls made on the accumulator so far
  emitted,                \* every utterance a call returned, in order, with the method
  fed,                    \* the calls made on the accumulator, in order, with their time
  \* ---- the lifecycle of one connection
  variant,                \* which handler: "ws" or "routes"
  state,                  \* connection_state
  peer,                   \* "open", or "gone" once the client has disconnected
  should_keepalive,       \* should_keepalive
  send_lock,              \* holder of send_lock, or "free"
  writing,                \* the tasks inside websocket.send_json
  at,                     \* position of the loop ("loop"), send_keepalive ("ka"), ai_task ("gen")
  sending,                \* the message the loop and ai_task last passed to safe_send
  cancelling,             \* per task: cancel() called, CancelledError not yet raised in it
  pinged,                 \* the values connection_state had when a ping was sent
  failed,                 \* a send or receive has failed
  invalid_json            \* "none", "received", "answered": the frame that is not JSON

\* the connections accepted so far
Conns == DOMAIN connection_state

hvars == <<SESSION_CACHE, prev_questions, created, connection_state, loop_pc, current_session_id,
           transcript_accumulator, ai_task, tasks, sent>>

svars == <<skip_check, transcript, buf, emitted_len, q_sent, parsed_q, ans_started,
           q_flag, gen_state, events, final, fwd_prev, fwd_sent>>

gvars == <<pause_threshold, current_paragraph, last_speech_time, is_speaking,
           waiting_for_continuation, complete_paragraphs, now, calls, emitted>>

fvars == <<fed>>

tvars == <<req, provider_calls, provider_failure, turn_sent, stream_obj>>

\* one session of the store, its connections and their turns
VARIABLES stored, bound, lookups, turns

\* the number of appends made by the writers of a session's recent questions
VARIABLES appended

qvars == <<appended>>

pvars == <<stored, bound, lookups, turns>>

lvars == <<variant, state, peer, should_keepalive, send_lock, writing, at, sending, cancelling,
           pinged, failed, invalid_json>>

vars == <<hvars, svars, tvars, gvars, fvars, lvars, pvars, qvars>>

(***************************************************************************)
(* Session store.                                                          *)
(***************************************************************************)
\* the questions a provider result can carry; "A" and "a" differ only in case
Questions == {"a", "A"}

lower(q) == IF q = "A" THEN "a" ELSE q

\* SESSION_CACHE.get(sid): the session's id when stored, else None
get_session(sid) == IF sid \in SESSION_CACHE THEN sid ELSE None

\* collections.deque(maxlen=10).append
PrevQuestionsMaxLen == 10

\* a list's append: no maxlen
deque_append_unbounded(dq, x) == Append(dq, x)

deque_append(dq, x) ==
  IF Len(dq) < PrevQuestionsMaxLen THEN Append(dq, x) ELSE Append(Tail(dq), x)

(***************************************************************************)
(* Outbound messages.  id is the "id" field on the wire (None when the     *)
(* payload has none); turn is bookkeeping: the task whose code sent it     *)
(* (None for messages of the message loop).                                *)
(***************************************************************************)
Msg(type, id, turn) == [type |-> type, id |-> id, turn |-> turn]

\* safe_send: drop the payload unless the state is CONNECTED
safe_send(c, payload) ==
  IF connection_state[c] = "CONNECTED" THEN Append(sent[c], payload) ELSE sent[c]

(***************************************************************************)
(* Generation tasks.                                                       *)
(***************************************************************************)
TaskIds == 1..Len(tasks)

NewTask(c, sid) ==
  [conn |-> c, sid |-> sid, pc |-> "created",
   must_cancel |-> FALSE,        \* Task.cancel() called, CancelledError not yet raised
   cancel_requested |-> FALSE,   \* Task.cancel() was ever called
   superseded |-> FALSE,         \* cancelled by a newer utterance while CONNECTED
   cancel_at |-> 0]              \* Len(sent[conn]) when cancel() was called

task_done(t) == tasks[t].pc = "done"

\* ai_task.cancel(): request cancellation; the error is raised at the task's next step
cancel(ts, t, by_utterance) ==
  [ts EXCEPT ![t].must_cancel = TRUE,
             ![t].cancel_requested = TRUE,
             ![t].superseded = @ \/ by_utterance,
             ![t].cancel_at = IF ts[t].cancel_requested THEN @ ELSE Len(sent[ts[t].conn])]

\* variant: the previous task is left running when a new one is started
CancelPreviousSkipped(c, ts, by_utterance) == ts

\* "if ai_task and not ai_task.done(): ai_task.cancel()"
CancelPrevious(c, ts, by_utterance) ==
  IF ai_task[c] # None /\ ts[ai_task[c]].pc # "done"
    THEN cancel(ts, ai_task[c], by_utterance)
    ELSE ts

RECURSIVE CountLoopMsgs(_)
CountLoopMsgs(q) ==
  IF q = <<>> THEN 0
  ELSE (IF Head(q).turn = None THEN 1 ELSE 0) + CountLoopMsgs(Tail(q))

\* the model stops a connection's loop from replying once it sent MaxLoopMsgs replies
MayReply(c) == CountLoopMsgs(sent[c]) < MaxLoopMsgs

\* the message loop only receives after its new task has taken its first step
LoopReady(c) ==
  /\ loop_pc[c] = "loop"
  /\ connection_state[c] = "CONNECTED"
  /\ ai_task[c] # None => tasks[ai_task[c]].pc # "created"

(***************************************************************************)
(* HTTP session creation (create_session).                                 *)
(***************************************************************************)
CreateSession(s) ==
  /\ s \notin created
  /\ created' = created \cup {s}
  /\ SESSION_CACHE' = SESSION_CACHE \cup {s}
  /\ UNCHANGED <<prev_questions, connection_state, loop_pc, current_session_id,
                 transcript_accumulator, ai_task, tasks, sent>>

(***************************************************************************)
(* Message loop of websocket_live_interview.                               *)
(***************************************************************************)
MsgSessionEnd(c, sid) ==
  /\ LoopReady(c)
  /\ SESSION_CACHE' = SESSION_CACHE \ {sid}
  /\ UNCHANGED <<prev_questions, created, connection_state, loop_pc, current_session_id,
                 transcript_accumulator, ai_task, tasks, sent>>

\* variant: an init naming an unknown session ends the loop without a reply
MsgInitUnknownCloses(c, sid) ==
  /\ LoopReady(c)
  /\ MayReply(c)
  /\ current_session_id' = [current_session_id EXCEPT ![c] = sid]
  /\ IF get_session(sid) = None
       THEN /\ loop_pc' = [loop_pc EXCEPT ![c] = "finally"]
            /\ UNCHANGED <<transcript_accumulator, sent>>
       ELSE /\ transcript_accumulator' = [transcript_accumulator EXCEPT ![c] = sid]
            /\ sent' = [sent EXCEPT ![c] = safe_send(c, Msg("connected", None, None))]
            /\ UNCHANGED loop_pc
  /\ UNCHANGED <<SESSION_CACHE, prev_questions, created, connection_state, ai_task, tasks>>

MsgInit(c, sid) ==
  /\ LoopReady(c)
  /\ MayReply(c)
  /\ current_session_id' = [current_session_id EXCEPT ![c] = sid]
  /\ IF get_session(sid) = None
       THEN /\ sent' = [sent EXCEPT ![c] = safe_send(c, Msg("error", None, None))]
            /\ UNCHANGED transcript_accumulator
       ELSE /\ transcript_accumulator' = [transcript_accumulator EXCEPT ![c] = sid]
            /\ sent' = [sent EXCEPT ![c] = safe_send(c, Msg("connected", None, None))]
  /\ UNCHANGED <<SESSION_CACHE, prev_questions, created, connection_state, loop_pc, ai_task,
                 tasks>>

\* completed: whether add_transcript returned an utterance for this fragment
MsgTranscript(c, completed) ==
  /\ LoopReady(c)
  /\ IF transcript_accumulator[c] = None \/ current_session_id[c] = None
       THEN /\ MayReply(c)
            /\ sent' = [sent EXCEPT ![c] = safe_send(c, Msg("error", None, None))]
            /\ UNCHANGED <<loop_pc, ai_task, tasks>>
       ELSE IF ~completed
         THEN UNCHANGED <<loop_pc, ai_task, tasks, sent>>
         ELSE IF get_session(current_session_id[c]) = None
           \* session["settings"] raises TypeError after the cancel: "Fatal WS error"
           THEN /\ tasks' = CancelPrevious(c, tasks, TRUE)
                /\ loop_pc' = [loop_pc EXCEPT ![c] = "finally"]
                /\ UNCHANGED <<ai_task, sent>>
           ELSE /\ Len(tasks) < MaxTasks
                /\ tasks' = Append(CancelPrevious(c, tasks, TRUE),
                                   NewTask(c, current_session_id[c]))
                /\ ai_task' = [ai_task EXCEPT ![c] = Len(tasks) + 1]
                /\ UNCHANGED <<loop_pc, sent>>
  /\ UNCHANGED <<SESSION_CACHE, prev_questions, created, connection_state, current_session_id,
                 transcript_accumulator>>

\* WebSocketDisconnect on receive: break
RecvDisconnect(c) ==
  /\ LoopReady(c)
  /\ loop_pc' = [loop_pc EXCEPT ![c] = "finally"]
  /\ UNCHANGED <<SESSION_CACHE, prev_questions, created, connection_state, current_session_id,
                 transcript_accumulator, ai_task, tasks, sent>>

\* finally: cancel the current task, then await websocket.close()
TeardownBegin(c) ==
  /\ loop_pc[c] = "finally"
  /\ tasks' = CancelPrevious(c, tasks, FALSE)
  /\ loop_pc' = [loop_pc EXCEPT ![c] = "closing"]
  /\ UNCHANGED <<SESSION_CACHE, prev_questions, created, connection_state, current_session_id,
                 transcript_accumulator, ai_task, sent>>

\* close() returned: set_state(DISCONNECTED)
TeardownEnd(c) ==
  /\ loop_pc[c] = "closing"
  /\ connection_state' = [connection_state EXCEPT ![c] = "DISCONNECTED"]
  /\ loop_pc' = [loop_pc EXCEPT ![c] = "closed"]
  /\ UNCHANGED <<SESSION_CACHE, prev_questions, created, current_session_id,
                 transcript_accumulator, ai_task, tasks, sent>>

(***************************************************************************)
(* run_ai_for_transcript (app/ws/ai_handler.py).  process_transcript_with_ai*)
(* is a coroutine function, so the object it returns for stream=True has no *)
(* __aiter__ and the task always runs the non-streaming block.  A step ends *)
(* at an await; a pending cancel() raises CancelledError at that await.     *)
(***************************************************************************)
Outcomes == {"no_question", "question", "timeout", "exception"}

SetTask(t, pc) == [tasks EXCEPT ![t].pc = pc, ![t].must_cancel = FALSE]

TaskSend(t, type, id) ==
  [sent EXCEPT ![tasks[t].conn] = safe_send(tasks[t].conn, Msg(type, id, t))]

\* first step: req_id = uuid4(); await safe_send(answer_start)
TaskStart(t) ==
  /\ tasks[t].pc = "created"
  /\ IF tasks[t].must_cancel
       THEN tasks' = SetTask(t, "done") /\ UNCHANGED sent
       ELSE tasks' = SetTask(t, "answer_start") /\ sent' = TaskSend(t, "answer_start", t)
  /\ UNCHANGED <<SESSION_CACHE, prev_questions, created, connection_state, loop_pc,
                 current_session_id, transcript_accumulator, ai_task>>

\* resumes in safe_send(answer_start), outside every try: then awaits wait_for(...)
TaskCallProvider(t) ==
  /\ tasks[t].pc = "answer_start"
  /\ IF tasks[t].must_cancel
       THEN tasks' = SetTask(t, "done")
       ELSE tasks' = SetTask(t, "provider")
  /\ UNCHANGED <<SESSION_CACHE, prev_questions, created, connection_state, loop_pc,
                 current_session_id, transcript_accumulator, ai_task, sent>>

is_prev_question(s, q) ==
  \E i \in 1..Len(prev_questions[s]) : lower(q) = lower(prev_questions[s][i])

\* variant: the provider call swallows the cancellation and delivers its result
ProviderStepSwallowsCancel(t, outcome, q) ==
  LET s == tasks[t].sid IN
  IF outcome \in {"timeout", "exception"}
    THEN /\ tasks' = SetTask(t, "error")
         /\ sent' = TaskSend(t, "error", None)
         /\ UNCHANGED prev_questions
    ELSE IF outcome = "no_question" \/ is_prev_question(s, q)
      THEN /\ tasks' = SetTask(t, "done")
           /\ UNCHANGED <<sent, prev_questions>>
      ELSE /\ prev_questions' = [prev_questions EXCEPT ![s] = deque_append(@, q)]
           /\ tasks' = SetTask(t, "question_detected")
           /\ sent' = TaskSend(t, "question_detected", t)

\* resumes in "result = await asyncio.wait_for(...)" and runs to the next await
ProviderStep(t, outcome, q) ==
  LET s == tasks[t].sid IN
  IF tasks[t].must_cancel
    THEN /\ tasks' = SetTask(t, "answer_cancelled")
         /\ sent' = TaskSend(t, "answer_cancelled", t)
         /\ UNCHANGED prev_questions
    ELSE IF outcome \in {"timeout", "exception"}
      THEN /\ tasks' = SetTask(t, "error")
           /\ sent' = TaskSend(t, "error", None)
           /\ UNCHANGED prev_questions
      ELSE IF outcome = "no_question" \/ is_prev_question(s, q)
        THEN /\ tasks' = SetTask(t, "done")
             /\ UNCHANGED <<sent, prev_questions>>
        ELSE /\ prev_questions' = [prev_questions EXCEPT ![s] = deque_append(@, q)]
             /\ tasks' = SetTask(t, "question_detected")
             /\ sent' = TaskSend(t, "question_detected", t)

\* variant: a provider error also ends the connection's message loop
TaskProviderErrorCloses(t, outcome, q) ==
  /\ tasks[t].pc = "provider"
  /\ ProviderStep(t, outcome, q)
  /\ loop_pc' = IF ~tasks[t].must_cancel /\ outcome \in {"timeout", "exception"}
                  THEN [loop_pc EXCEPT ![tasks[t].conn] = "finally"]
                  ELSE loop_pc
  /\ UNCHANGED <<SESSION_CACHE, created, connection_state,
                 current_session_id, transcript_accumulator, ai_task>>

TaskProvider(t, outcome, q) ==
  /\ tasks[t].pc = "provider"
  /\ ProviderStep(t, outcome, q)
  /\ UNCHANGED <<SESSION_CACHE, created, connection_state, loop_pc,
                 current_session_id, transcript_accumulator, ai_task>>

\* resumes in safe_send(question_detected), outside every try: then answer_ready
TaskAnswerReady(t) ==
  /\ tasks[t].pc = "question_detected"
  /\ IF tasks[t].must_cancel
       THEN tasks' = SetTask(t, "done") /\ UNCHANGED sent
       ELSE tasks' = SetTask(t, "answer_ready") /\ sent' = TaskSend(t, "answer_ready", t)
  /\ UNCHANGED <<SESSION_CACHE, prev_questions, created, connection_state, loop_pc,
                 current_session_id, transcript_accumulator, ai_task>>

\* resumes in the last safe_send of the coroutine and returns (or is cancelled there)
TaskReturn(t) ==
  /\ tasks[t].pc \in {"answer_ready", "answer_cancelled", "error"}
  /\ tasks' = SetTask(t, "done")
  /\ UNCHANGED <<SESSION_CACHE, prev_questions, created, connection_state, loop_pc,
                 current_session_id, transcript_accumulator, ai_task, sent>>

HInit(accepted) ==
  /\ SESSION_CACHE = {}
  /\ prev_questions = [s \in SessionIds |-> <<>>]
  /\ created = {}
  /\ connection_state = [c \in accepted |-> "CONNECTED"]
  /\ loop_pc = [c \in accepted |-> "loop"]
  /\ current_session_id = [c \in accepted |-> None]
  /\ transcript_accumulator = [c \in accepted |-> None]
  /\ ai_task = [c \in accepted |-> None]
  /\ tasks = <<>>
  /\ sent = [c \in accepted |-> <<>>]


HNext ==
  \/ \E s \in SessionIds : CreateSession(s)
  \/ \E c \in Conns, sid \in SessionIds \cup {UnknownSid} : MsgInit(c, sid)
  \/ \E c \in Conns, sid \in SessionIds : MsgSessionEnd(c, sid)
  \/ \E c \in Conns, completed \in BOOLEAN : MsgTranscript(c, completed)
  \/ \E c \in Conns : RecvDisconnect(c)
  \/ \E c \in Conns : TeardownBegin(c)
  \/ \E c \in Conns : TeardownEnd(c)
  \/ \E t \in TaskIds : TaskStart(t)
  \/ \E t \in TaskIds : TaskCallProvider(t)
  \/ \E t \in TaskIds, outcome \in Outcomes, q \in Questions : TaskProvider(t, outcome, q)
  \/ \E t \in TaskIds : TaskAnswerReady(t)
  \/ \E t \in TaskIds : TaskReturn(t)

(***************************************************************************)
(* Text.  A string is a sequence of atoms; an atom stands for the substring *)
(* named below and is never split by a chunk boundary.                      *)
(***************************************************************************)
Atoms == {"Q", "A", "S", "_", "how", "explain", "ok", "anything else"}

\* len() of the substring an atom stands for
AtomLen(a) ==
  CASE a = "Q" -> 9              \* "QUESTION:"
    [] a = "A" -> 7              \* "ANSWER:"
    [] a = "S" -> 4              \* "SKIP"
    [] a = "_" -> 1              \* one blank
    [] a = "how" -> 3
    [] a = "explain" -> 7
    [] a = "ok" -> 2
    [] a = "anything else" -> 13

RECURSIVE str_len(_)
str_len(s) == IF s = <<>> THEN 0 ELSE AtomLen(Head(s)) + str_len(Tail(s))

\* s[n:] for n on an atom boundary
RECURSIVE str_from(_, _)
str_from(s, n) ==
  IF n <= 0 \/ s = <<>> THEN s ELSE str_from(Tail(s), n - AtomLen(Head(s)))

RECURSIVE lstrip(_)
lstrip(s) == IF s # <<>> /\ Head(s) = "_" THEN lstrip(Tail(s)) ELSE s

RECURSIVE rstrip(_)
rstrip(s) ==
  IF s # <<>> /\ s[Len(s)] = "_" THEN rstrip(SubSeq(s, 1, Len(s) - 1)) ELSE s

strip(s) == rstrip(lstrip(s))

contains(s, a) == \E i \in 1..Len(s) : s[i] = a

\* index of the first occurrence of atom a in s (a occurs in s)
first_index(s, a) == CHOOSE i \in 1..Len(s) : s[i] = a /\ \A j \in 1..(i - 1) : s[j] # a

\* s.split(a, 1)[1]
after_first(s, a) == SubSeq(s, first_index(s, a) + 1, Len(s))

\* s.split(a, 1)[0]
before_first(s, a) == IF contains(s, a) THEN SubSeq(s, 1, first_index(s, a) - 1) ELSE s

\* len(s.split())
RECURSIVE word_count(_)
word_count(s) ==
  IF s = <<>> THEN 0
  ELSE IF Head(s) = "_" THEN word_count(Tail(s))
  ELSE IF Len(s) > 1 /\ s[2] # "_" THEN word_count(Tail(s))
  ELSE 1 + word_count(Tail(s))

\* text.upper().startswith("SKIP")
starts_with_skip(s) == s # <<>> /\ Head(s) = "S"

(***************************************************************************)
(* should_skip_transcript (qa.py).                                          *)
(***************************************************************************)
SkipPhrases == {"anything else"}
QuestionWords == {"how", "explain"}
ShortWordLimit == 15

should_skip_transcript(s) ==
  \/ \E a \in SkipPhrases : contains(s, a)
  \/ /\ word_count(s) < ShortWordLimit
     /\ ~ \E a \in QuestionWords : contains(s, a)

(***************************************************************************)
(* _finalize_parse (qa.py).  None is the empty text.                        *)
(***************************************************************************)
MinQuestionChars == 5

Result(has_question, question, answer) ==
  [has_question |-> has_question, question |-> question, answer |-> answer]

NoQuestion == Result(FALSE, <<>>, <<>>)

\* variant: an output without the marker pair is dropped
finalize_parse_drops_unmarked(output_text, utterance) ==
  LET output == strip(output_text) IN
  IF output = <<>> \/ starts_with_skip(output) THEN NoQuestion
  ELSE IF contains(output, "Q") /\ contains(output, "A")
    THEN LET q0 == strip(before_first(after_first(output, "Q"), "A"))
             a0 == strip(after_first(output, "A"))
             short == q0 = <<>> \/ str_len(q0) < MinQuestionChars
             q == IF short THEN strip(utterance) ELSE q0
             a == IF short THEN output ELSE a0
         IN IF should_skip_transcript(q) THEN NoQuestion ELSE Result(TRUE, q, a)
    ELSE NoQuestion

finalize_parse(output_text, utterance) ==
  LET output == strip(output_text) IN
  IF output = <<>> \/ starts_with_skip(output) THEN NoQuestion
  ELSE IF contains(output, "Q") /\ contains(output, "A")
    THEN LET q0 == strip(before_first(after_first(output, "Q"), "A"))
             a0 == strip(after_first(output, "A"))
             short == q0 = <<>> \/ str_len(q0) < MinQuestionChars
             q == IF short THEN strip(utterance) ELSE q0
             a == IF short THEN output ELSE a0
         IN IF should_skip_transcript(q) THEN NoQuestion ELSE Result(TRUE, q, a)
    ELSE IF should_skip_transcript(strip(utterance)) THEN NoQuestion
         ELSE Result(TRUE, strip(utterance), output)

(***************************************************************************)
(* _stream_gen (qa.py): _parse_inc / _try_parse_incremental on the buffer.  *)
(***************************************************************************)
Inc(kind, answer, qs, pq) == [kind |-> kind, answer |-> answer, q_sent |-> qs, parsed_q |-> pq]

parse_inc(text) ==
  IF skip_check /\ starts_with_skip(text) THEN Inc("skip", <<>>, q_sent, parsed_q)
  ELSE IF ~contains(text, "Q") \/ ~contains(text, "A") THEN Inc("none", <<>>, q_sent, parsed_q)
  ELSE LET q_part == strip(before_first(after_first(text, "Q"), "A"))
           a_part == after_first(text, "A")
       IN IF ~q_sent /\ q_part # <<>>
            THEN IF should_skip_transcript(q_part)
                   THEN Inc("skip", <<>>, q_sent, parsed_q)
                   ELSE Inc("answer", a_part, TRUE, q_part)
            ELSE Inc("answer", a_part, q_sent, parsed_q)

Event(type, text) == [type |-> type, text |-> text]

\* the events one chunk makes _stream_gen yield, given the parse of the new buffer
chunk_events(inc) ==
  IF inc.kind = "none" THEN <<>>
  ELSE IF inc.kind = "skip" THEN <<Event("done", <<>>)>>
  ELSE (IF inc.q_sent /\ inc.parsed_q # <<>> /\ ~q_flag
          THEN <<Event("question", inc.parsed_q)>> ELSE <<>>)
       \o (IF inc.answer # <<>> /\ str_len(inc.answer) > emitted_len
             THEN <<Event("delta", str_from(inc.answer, emitted_len))>> ELSE <<>>)

(***************************************************************************)
(* The "async for ev in stream_obj" loop of run_ai_for_transcript.          *)
(***************************************************************************)
Fwd(prev, out) == [prev |-> prev, out |-> out]

str_lower(s) ==
  [i \in 1..Len(s) |-> CASE s[i] = "Q" -> "q" [] s[i] = "A" -> "a" [] s[i] = "S" -> "s"
                         [] OTHER -> s[i]]

in_prev(prev, q) == \E i \in 1..Len(prev) : str_lower(q) = str_lower(prev[i])

\* one question or delta event forwarded
forward_one(f, ev) ==
  IF ev.type = "question"
    THEN IF strip(ev.text) = <<>> THEN f
         ELSE Fwd(deque_append(f.prev, strip(ev.text)),
                  Append(f.out, Event("question_detected", strip(ev.text))))
  ELSE IF ev.type = "delta"
    THEN IF ev.text = <<>> THEN f ELSE Fwd(f.prev, Append(f.out, Event("answer_delta", ev.text)))
  ELSE f

RECURSIVE forward_all(_, _)
forward_all(f, evs) ==
  IF evs = <<>> THEN f ELSE forward_all(forward_one(f, Head(evs)), Tail(evs))

\* "FINAL RESULT (STREAM)": the done event processed after the loop
forward_final(f, res) ==
  IF ~res.has_question THEN f
  ELSE LET f1 == IF res.question # <<>> /\ ~in_prev(f.prev, res.question)
                   THEN Fwd(deque_append(f.prev, res.question),
                            Append(f.out, Event("question_detected", res.question)))
                   ELSE f
       IN Fwd(f1.prev, Append(f1.out, [type |-> "answer_ready", text |-> res.question,
                                       answer |-> res.answer]))

Chunks == UNION {[1..n -> Atoms] : n \in 1..MaxChunk}

\* the provider delivers one more chunk
StreamChunk(chunk) ==
  /\ gen_state = "streaming"
  /\ Len(buf) + Len(chunk) <= MaxOut
  /\ LET inc == parse_inc(buf \o chunk)
         evs == chunk_events(inc)
         f == forward_all(Fwd(fwd_prev, fwd_sent), evs)
     IN /\ buf' = buf \o chunk
        /\ q_sent' = inc.q_sent
        /\ parsed_q' = inc.parsed_q
        /\ ans_started' = (ans_started \/ inc.kind = "answer")
        /\ q_flag' = (q_flag \/ \E i \in 1..Len(evs) : evs[i].type = "question")
        /\ emitted_len' = IF \E i \in 1..Len(evs) : evs[i].type = "delta"
                            THEN str_len(inc.answer) ELSE emitted_len
        /\ events' = events \o evs
        /\ gen_state' = IF inc.kind = "skip" THEN "done" ELSE "streaming"
        /\ final' = IF inc.kind = "skip" THEN NoQuestion ELSE final
        /\ fwd_prev' = f.prev
        /\ fwd_sent' = f.out
  /\ UNCHANGED <<skip_check, transcript>>

\* the provider stream ends: final = _finalize_parse(buf); yield done
StreamEnd ==
  /\ gen_state = "streaming"
  /\ LET res == finalize_parse(buf, transcript)
         f == forward_final(Fwd(fwd_prev, fwd_sent), res)
     IN /\ final' = res
        /\ events' = Append(events, [type |-> "done", text |-> res.question,
                                     answer |-> res.answer, has_question |-> res.has_question])
        /\ fwd_prev' = f.prev
        /\ fwd_sent' = f.out
  /\ gen_state' = "done"
  /\ UNCHANGED <<skip_check, transcript, buf, emitted_len, q_sent, parsed_q, ans_started, q_flag>>

\* asyncio.timeout expires or the provider raises: yield error, the loop sends it
StreamError ==
  /\ gen_state = "streaming"
  /\ events' = Append(events, Event("error", <<>>))
  /\ fwd_sent' = Append(fwd_sent, Event("error", <<>>))
  /\ gen_state' = "error"
  /\ UNCHANGED <<skip_check, transcript, buf, emitted_len, q_sent, parsed_q, ans_started,
                 q_flag, final, fwd_prev>>

\* utterances that pass the pre-filter of process_transcript_with_ai
Transcripts == {<<"how">>, <<"explain", "_", "ok">>}

\* no streamed turn
SIdle ==
  /\ skip_check = TRUE
  /\ transcript = <<>>
  /\ buf = <<>>
  /\ emitted_len = 0
  /\ q_sent = FALSE
  /\ parsed_q = <<>>
  /\ ans_started = FALSE
  /\ q_flag = FALSE
  /\ gen_state = "idle"
  /\ events = <<>>
  /\ final = NoQuestion
  /\ fwd_prev = <<>>
  /\ fwd_sent = <<>>

\* _stream_gen entered for an utterance, before the first chunk
SInit ==
  /\ skip_check \in BOOLEAN
  /\ transcript \in Transcripts
  /\ buf = <<>>
  /\ emitted_len = 0
  /\ q_sent = FALSE
  /\ parsed_q = <<>>
  /\ ans_started = FALSE
  /\ q_flag = FALSE
  /\ gen_state = "streaming"
  /\ events = <<>>
  /\ final = NoQuestion
  /\ fwd_prev \in {<<>>, << <<"how">> >>}
  /\ fwd_sent = <<>>

SNext ==
  \/ \E chunk \in Chunks : StreamChunk(chunk)
  \/ StreamEnd
  \/ StreamError

(***************************************************************************)
(* process_transcript_with_ai (qa.py) as one request: the pre-filter, then *)
(* the non-streaming call or the generator of _stream_gen.                 *)
(***************************************************************************)
RECURSIVE Repeat(_, _)
Repeat(s, n) == IF n = 0 THEN <<>> ELSE s \o Repeat(s, n - 1)

\* "ok" said ShortWordLimit times: a long statement without a question word
LongStatement == Repeat(<<"ok", "_">>, ShortWordLimit)

\* "", " ", "ok", "ok anything else", "how anything else", "how", the long statement
Utterances ==
  { <<>>, <<"_">>, <<"ok">>, <<"ok", "_", "anything else">>,
    <<"how", "_", "anything else">>, <<"how">>, LongStatement }

Outputs == UNION {[1..n -> Atoms] : n \in 0..MaxChunk}

\* the checks before "Load response style"
pre_filter_returns(utterance, settings) ==
  \/ strip(utterance) = <<>>
  \/ ~settings
  \/ should_skip_transcript(utterance)

\* the entry of process_transcript_with_ai with the skip filter left out
ProcessTranscriptUnfiltered ==
  /\ gen_state = "requested"
  /\ IF strip(transcript) = <<>> \/ ~req.settings
       THEN /\ gen_state' = "returned"
            /\ final' = NoQuestion
            /\ UNCHANGED provider_calls
       ELSE IF req.stream
         THEN /\ gen_state' = "generator"
              /\ UNCHANGED <<final, provider_calls>>
         ELSE /\ gen_state' = "asking"
              /\ provider_calls' = provider_calls + 1
              /\ UNCHANGED final
  /\ UNCHANGED <<stream_obj, req, provider_failure, turn_sent, skip_check, transcript, buf, emitted_len, q_sent, parsed_q, ans_started,
                 q_flag, events, fwd_prev, fwd_sent>>

\* process_transcript_with_ai up to the provider call
ProcessTranscript ==
  /\ gen_state = "requested"
  /\ IF pre_filter_returns(transcript, req.settings)
       THEN /\ gen_state' = "returned"
            /\ final' = NoQuestion
            /\ UNCHANGED provider_calls
       ELSE IF req.stream
         THEN /\ gen_state' = "generator"
              /\ UNCHANGED <<final, provider_calls>>
         ELSE /\ gen_state' = "asking"
              /\ provider_calls' = provider_calls + 1
              /\ UNCHANGED final
  /\ UNCHANGED <<stream_obj, req, provider_failure, turn_sent, skip_check, transcript, buf, emitted_len, q_sent, parsed_q, ans_started,
                 q_flag, events, fwd_prev, fwd_sent>>

\* non-stream: ask_ai returned raw
AskAiReturn(raw) ==
  /\ gen_state = "asking"
  /\ final' = finalize_parse(raw, transcript)
  /\ gen_state' = "returned"
  /\ UNCHANGED <<stream_obj, req, provider_calls, provider_failure, turn_sent, skip_check, transcript, buf, emitted_len, q_sent,
                 parsed_q, ans_started, q_flag, events, fwd_prev, fwd_sent>>

\* non-stream: ask_ai raised
AskAiRaise ==
  /\ gen_state = "asking"
  /\ final' = NoQuestion
  /\ gen_state' = "returned"
  /\ UNCHANGED <<stream_obj, req, provider_calls, provider_failure, turn_sent, skip_check, transcript, buf, emitted_len, q_sent,
                 parsed_q, ans_started, q_flag, events, fwd_prev, fwd_sent>>

\* the text ask_ai returns when the provider call fails: "AI ERROR: Model
\* processing failed. ..." (or the error text of the provider client)
AiErrorText == <<"AI ERROR">>

\* non-stream: the provider call failed in transport; ask_ai catches the
\* exception and returns the error text
AskAiFails ==
  /\ gen_state = "asking"
  /\ provider_failure' = "transport"
  /\ final' = finalize_parse(AiErrorText, transcript)
  /\ gen_state' = "returned"
  /\ UNCHANGED <<stream_obj, req, provider_calls, turn_sent, skip_check, transcript, buf, emitted_len,
                 q_sent, parsed_q, ans_started, q_flag, events, fwd_prev, fwd_sent>>

\* run_ai_for_transcript: wait_for(process_transcript_with_ai(...), 30) timed out
WaitForTimeout ==
  /\ gen_state = "asking"
  /\ provider_failure' = "timeout"
  /\ turn_sent' = <<Event("error", <<>>)>>
  /\ gen_state' = "handled"
  /\ UNCHANGED <<stream_obj, req, provider_calls, skip_check, transcript, buf, emitted_len, q_sent,
                 parsed_q, ans_started, q_flag, events, final, fwd_prev, fwd_sent>>

\* run_ai_for_transcript with the result of its non-streaming call
HandleResult ==
  /\ gen_state = "returned"
  /\ ~req.stream
  /\ turn_sent' =
       IF final.has_question /\ ~in_prev(fwd_prev, final.question)
         THEN <<Event("question_detected", final.question),
                [type |-> "answer_ready", text |-> final.question, answer |-> final.answer]>>
         ELSE <<>>
  /\ gen_state' = "handled"
  /\ UNCHANGED <<stream_obj, req, provider_calls, provider_failure, skip_check, transcript, buf,
                 emitted_len, q_sent, parsed_q, ans_started, q_flag, events, final, fwd_prev,
                 fwd_sent>>

\* what a call of an "async def" function evaluates to when it is not awaited:
\* a coroutine object, whatever the body would return
CallWithoutAwait == "coroutine"

\* hasattr(obj, "__aiter__")
has_aiter(obj) == obj = "async_generator"

\* run_ai_for_transcript: stream_obj = process_transcript_with_ai(..., stream=True),
\* then "if stream_obj is not None and hasattr(stream_obj, '__aiter__')"; when the
\* test fails the function is called again without stream and awaited
HandlerStreamCall ==
  /\ gen_state = "requested"
  /\ req.stream
  /\ stream_obj = "unset"
  /\ stream_obj' = CallWithoutAwait
  /\ IF has_aiter(CallWithoutAwait)
       THEN gen_state' = "generator" /\ UNCHANGED req
       ELSE req' = [req EXCEPT !.stream = FALSE] /\ UNCHANGED gen_state
  /\ UNCHANGED <<provider_calls, provider_failure, turn_sent, skip_check, transcript, buf,
                 emitted_len, q_sent, parsed_q, ans_started, q_flag, events, final, fwd_prev,
                 fwd_sent>>

\* stream: the generator is iterated and opens the provider stream
StreamOpen ==
  /\ gen_state = "generator"
  /\ gen_state' = "streaming"
  /\ provider_calls' = provider_calls + 1
  /\ UNCHANGED <<stream_obj, req, provider_failure, turn_sent, skip_check, transcript, buf, emitted_len, q_sent, parsed_q, ans_started,
                 q_flag, events, final, fwd_prev, fwd_sent>>

\* no request
TIdle ==
  /\ req = [stream |-> FALSE, settings |-> TRUE]
  /\ stream_obj = "unset"
  /\ provider_calls = 0
  /\ provider_failure = "none"
  /\ turn_sent = <<>>

\* process_transcript_with_ai of app/qa.py called
TInit ==
  /\ req \in [stream : BOOLEAN, settings : BOOLEAN]
  /\ stream_obj = "unset"
  /\ provider_calls = 0
  /\ provider_failure = "none"
  /\ turn_sent = <<>>
  /\ skip_check = FALSE
  /\ transcript \in Utterances
  /\ buf = <<>>
  /\ emitted_len = 0
  /\ q_sent = FALSE
  /\ parsed_q = <<>>
  /\ ans_started = FALSE
  /\ q_flag = FALSE
  /\ gen_state = "requested"
  /\ events = <<>>
  /\ final = NoQuestion
  /\ fwd_prev = <<>>
  /\ fwd_sent = <<>>

TNext ==
  \/ ProcessTranscript
  \/ \E raw \in Outputs : AskAiReturn(raw)
  \/ AskAiRaise
  \/ AskAiFails
  \/ WaitForTimeout
  \/ HandleResult
  \/ HandlerStreamCall
  \/ StreamOpen
  \/ SNext /\ UNCHANGED tvars

(***************************************************************************)
(* Connection lifecycle of websocket_live_interview: the message loop, the *)
(* send_keepalive task and one generation task sharing connection_state,   *)
(* send_lock and the socket.  Written for the two handlers of the          *)
(* repository: "ws" is app/ws/ws_live_interview.py (mounted by app/main.py) *)
(* and "routes" is app/routes/ws_live_interview.py.  get_state and         *)
(* set_state never suspend (state_lock is never held across an await), so  *)
(* each is one step with the code around it.  An utterance is accepted     *)
(* here only when no generation task is running.                           *)
(***************************************************************************)
Variants == {"ws", "routes"}

Procs == {"loop", "ka", "gen"}

Senders == {"loop", "gen"}

\* task.done()
done(p) == at[p] \in {"none", "done", "cancelled"}

\* websocket.send_json left by p, with the lock p held around it
LeaveSend(p) ==
  /\ writing' = writing \ {p}
  /\ send_lock' = IF send_lock = p THEN "free" ELSE send_lock

\* safe_send called by p; after is p's position once safe_send returns:
\* it returns at once, waits for send_lock, or enters send_json
SafeSendEnter(p, msg, after) ==
  /\ sending' = [sending EXCEPT ![p] = msg]
  /\ IF state # "CONNECTED"
       THEN at' = [at EXCEPT ![p] = after] /\ UNCHANGED <<send_lock, writing>>
     ELSE IF send_lock = "free"
       THEN /\ send_lock' = p
            /\ writing' = writing \cup {p}
            /\ at' = [at EXCEPT ![p] = "send_json"]
       ELSE /\ at' = [at EXCEPT ![p] = "send_lock"]
            /\ UNCHANGED <<send_lock, writing>>

\* "async with send_lock" granted to p, which enters send_json
LockGranted(p) ==
  /\ at[p] = "send_lock"
  /\ ~cancelling[p]
  /\ send_lock = "free"
  /\ send_lock' = p
  /\ writing' = writing \cup {p}
  /\ at' = [at EXCEPT ![p] = "send_json"]
  /\ UNCHANGED <<variant, state, peer, should_keepalive, sending, cancelling, pinged, failed,
                 invalid_json>>

\* the client goes away: from now on receive raises WebSocketDisconnect and sends raise
PeerGone ==
  /\ peer = "open"
  /\ at["loop"] \notin {"closed", "aborted"}
  /\ peer' = "gone"
  /\ UNCHANGED <<variant, state, should_keepalive, send_lock, writing, at, sending, cancelling,
                 pinged, failed, invalid_json>>

(* ---- the message loop ---- *)
\* "while await get_state() == ConnectionState.CONNECTED"
LoopWhile ==
  /\ at["loop"] = "while"
  /\ at' = [at EXCEPT !["loop"] = IF state = "CONNECTED" THEN "receive_text" ELSE "finally"]
  /\ UNCHANGED <<variant, state, peer, should_keepalive, send_lock, writing, sending, cancelling,
                 pinged, failed, invalid_json>>

\* wait_for(receive_text(), 2.0) times out: continue
RecvTimeout ==
  /\ at["loop"] = "receive_text"
  /\ peer = "open"
  /\ at' = [at EXCEPT !["loop"] = "while"]
  /\ UNCHANGED <<variant, state, peer, should_keepalive, send_lock, writing, sending, cancelling,
                 pinged, failed, invalid_json>>

\* receive_text raises WebSocketDisconnect: break
RecvDisconnected ==
  /\ at["loop"] = "receive_text"
  /\ peer = "gone"
  /\ at' = [at EXCEPT !["loop"] = "finally"]
  /\ failed' = TRUE
  /\ UNCHANGED <<variant, state, peer, should_keepalive, send_lock, writing, sending, cancelling,
                 pinged, invalid_json>>

\* a text frame that is not JSON
RecvInvalidJson ==
  /\ at["loop"] = "receive_text"
  /\ peer = "open"
  /\ invalid_json = "none"
  /\ invalid_json' = "received"
  /\ IF variant = "ws"
       THEN \* json.loads raises: "except Exception" of the endpoint, then finally
            /\ at' = [at EXCEPT !["loop"] = "finally"]
            /\ UNCHANGED <<send_lock, writing, sending>>
       ELSE \* safe_send({"type": "error", "message": "Invalid JSON payload"}); continue
            SafeSendEnter("loop", "invalid_json", "while")
  /\ UNCHANGED <<variant, state, peer, should_keepalive, cancelling, pinged, failed>>

\* a frame the loop answers with one safe_send (init, settings_update, ...): continue
RecvAnswered ==
  /\ at["loop"] = "receive_text"
  /\ peer = "open"
  /\ SafeSendEnter("loop", "reply", "while")
  /\ UNCHANGED <<variant, state, peer, should_keepalive, cancelling, pinged, failed,
                 invalid_json>>

\* a transcript frame that completes an utterance: create_task(run_ai_for_transcript)
RecvUtterance ==
  /\ at["loop"] = "receive_text"
  /\ peer = "open"
  /\ done("gen")
  /\ at' = [at EXCEPT !["loop"] = "while", !["gen"] = "created"]
  /\ UNCHANGED <<variant, state, peer, should_keepalive, send_lock, writing, sending, cancelling,
                 pinged, failed, invalid_json>>

\* the loop's send_json returns or raises
LoopSent ==
  /\ at["loop"] = "send_json"
  /\ LeaveSend("loop")
  /\ IF peer = "open"
       THEN /\ at' = [at EXCEPT !["loop"] = "while"]
            /\ invalid_json' = IF sending["loop"] = "invalid_json" THEN "answered"
                               ELSE invalid_json
            /\ UNCHANGED <<state, failed>>
       ELSE /\ failed' = TRUE
            /\ UNCHANGED invalid_json
            /\ IF variant = "ws"
                 THEN \* safe_send has no handler: "except Exception" of the endpoint
                      at' = [at EXCEPT !["loop"] = "finally"] /\ UNCHANGED state
                 ELSE \* safe_send: set_state(DISCONNECTING); return False
                      at' = [at EXCEPT !["loop"] = "while"] /\ state' = "DISCONNECTING"
  /\ UNCHANGED <<variant, peer, should_keepalive, sending, cancelling, pinged>>

\* finally, up to its first await that suspends
LoopFinally ==
  /\ at["loop"] = "finally"
  /\ should_keepalive' = FALSE
  /\ IF variant = "ws"
       THEN \* keepalive_task.cancel(); ai_task.cancel(); await websocket.close()
            /\ cancelling' = [p \in Procs |-> p # "loop" /\ (cancelling[p] \/ ~done(p))]
            /\ at' = [at EXCEPT !["loop"] = "close"]
            /\ UNCHANGED state
       ELSE \* set_state(DISCONNECTED); ai_task.cancel(); await ai_task
            /\ state' = "DISCONNECTED"
            /\ IF ~done("gen")
                 THEN /\ cancelling' = [cancelling EXCEPT !["gen"] = TRUE]
                      /\ at' = [at EXCEPT !["loop"] = "await ai_task"]
                 ELSE \* keepalive_task.cancel(); await keepalive_task
                      /\ cancelling' = [cancelling EXCEPT !["ka"] = ~done("ka")]
                      /\ at' = [at EXCEPT !["loop"] = "await keepalive_task"]
  /\ UNCHANGED <<variant, peer, send_lock, writing, sending, pinged, failed, invalid_json>>

\* routes: "await ai_task" returns, or raises the task's CancelledError, which
\* "except Exception" does not catch: the rest of finally is skipped
LoopAwaitedAiTask ==
  /\ at["loop"] = "await ai_task"
  /\ done("gen")
  /\ IF at["gen"] = "cancelled"
       THEN at' = [at EXCEPT !["loop"] = "aborted"] /\ UNCHANGED cancelling
       ELSE /\ cancelling' = [cancelling EXCEPT !["ka"] = ~done("ka")]
            /\ at' = [at EXCEPT !["loop"] = "await keepalive_task"]
  /\ UNCHANGED <<variant, state, peer, should_keepalive, send_lock, writing, sending, pinged,
                 failed, invalid_json>>

\* routes: "await keepalive_task" returns; await websocket.close()
LoopAwaitedKeepalive ==
  /\ at["loop"] = "await keepalive_task"
  /\ done("ka")
  /\ at' = [at EXCEPT !["loop"] = "close"]
  /\ UNCHANGED <<variant, state, peer, should_keepalive, send_lock, writing, sending, cancelling,
                 pinged, failed, invalid_json>>

\* websocket.close() returns or raises; ws: set_state(DISCONNECTED)
LoopClosed ==
  /\ at["loop"] = "close"
  /\ at' = [at EXCEPT !["loop"] = "closed"]
  /\ state' = IF variant = "ws" THEN "DISCONNECTED" ELSE state
  /\ UNCHANGED <<variant, peer, should_keepalive, send_lock, writing, sending, cancelling,
                 pinged, failed, invalid_json>>

(* ---- send_keepalive ---- *)
\* "while should_keepalive and await get_state() == CONNECTED", then the sleep
keepalive_continues == should_keepalive /\ state = "CONNECTED"

\* the task starts: the loop test, then asyncio.sleep(RENDER_KEEPALIVE)
KeepaliveStart ==
  /\ at["ka"] = "created"
  /\ ~cancelling["ka"]
  /\ at' = [at EXCEPT !["ka"] = IF keepalive_continues THEN "sleep" ELSE "done"]
  /\ UNCHANGED <<variant, state, peer, should_keepalive, send_lock, writing, sending, cancelling,
                 pinged, failed, invalid_json>>

\* the sleep ends: websocket.send_json({"type": "ping"}) is entered
KeepaliveWake ==
  /\ at["ka"] = "sleep"
  /\ ~cancelling["ka"]
  /\ at' = [at EXCEPT !["ka"] = "send_json"]
  /\ writing' = writing \cup {"ka"}
  /\ pinged' = pinged \cup {state}
  /\ UNCHANGED <<variant, state, peer, should_keepalive, send_lock, sending, cancelling, failed,
                 invalid_json>>

\* the ping's send_json returns (next loop test) or raises (DISCONNECTING, task ends)
KeepaliveSent ==
  /\ at["ka"] = "send_json"
  /\ ~cancelling["ka"]
  /\ LeaveSend("ka")
  /\ IF peer = "open"
       THEN /\ at' = [at EXCEPT !["ka"] = IF keepalive_continues THEN "sleep" ELSE "done"]
            /\ UNCHANGED <<state, failed>>
       ELSE /\ state' = "DISCONNECTING"
            /\ failed' = TRUE
            /\ at' = [at EXCEPT !["ka"] = "done"]
  /\ UNCHANGED <<variant, peer, should_keepalive, sending, cancelling, pinged, invalid_json>>

\* CancelledError reaches send_keepalive: "except asyncio.CancelledError: pass"
KeepaliveCancelled ==
  /\ cancelling["ka"]
  /\ at["ka"] \in {"created", "sleep", "send_json"}
  /\ LeaveSend("ka")
  /\ at' = [at EXCEPT !["ka"] = "done"]
  /\ cancelling' = [cancelling EXCEPT !["ka"] = FALSE]
  /\ UNCHANGED <<variant, state, peer, should_keepalive, sending, pinged, failed, invalid_json>>

(* ---- run_ai_for_transcript ---- *)
\* position after the safe_send of msg returns
gen_after(msg) == IF msg = "answer_start" THEN "provider" ELSE "done"

\* the task starts: await safe_send(answer_start)
GenStart ==
  /\ at["gen"] = "created"
  /\ ~cancelling["gen"]
  /\ SafeSendEnter("gen", "answer_start", gen_after("answer_start"))
  /\ UNCHANGED <<variant, state, peer, should_keepalive, cancelling, pinged, failed,
                 invalid_json>>

\* the provider call returns a result, times out or raises: one safe_send, then return
GenProviderReturns ==
  /\ at["gen"] = "provider"
  /\ ~cancelling["gen"]
  /\ \E msg \in {"answer_ready", "error"} : SafeSendEnter("gen", msg, gen_after(msg))
  /\ UNCHANGED <<variant, state, peer, should_keepalive, cancelling, pinged, failed,
                 invalid_json>>

\* the task's send_json returns or raises
GenSent ==
  /\ at["gen"] = "send_json"
  /\ ~cancelling["gen"]
  /\ LeaveSend("gen")
  /\ IF peer = "open"
       THEN at' = [at EXCEPT !["gen"] = gen_after(sending["gen"])] /\ UNCHANGED <<state, failed>>
       ELSE /\ failed' = TRUE
            /\ IF variant = "ws"
                 THEN \* the exception leaves safe_send and ends the task
                      at' = [at EXCEPT !["gen"] = "done"] /\ UNCHANGED state
                 ELSE \* safe_send: set_state(DISCONNECTING); return False
                      /\ at' = [at EXCEPT !["gen"] = gen_after(sending["gen"])]
                      /\ state' = "DISCONNECTING"
  /\ UNCHANGED <<variant, peer, should_keepalive, sending, cancelling, pinged, invalid_json>>

\* CancelledError reaches the task: caught around the provider call
\* (safe_send(answer_cancelled), return), not caught in a safe_send
GenCancelled ==
  /\ cancelling["gen"]
  /\ at["gen"] \in {"created", "send_lock", "send_json", "provider"}
  /\ cancelling' = [cancelling EXCEPT !["gen"] = FALSE]
  /\ IF at["gen"] = "provider"
       THEN SafeSendEnter("gen", "answer_cancelled", gen_after("answer_cancelled"))
       ELSE /\ LeaveSend("gen")
            /\ at' = [at EXCEPT !["gen"] = "cancelled"]
            /\ UNCHANGED sending
  /\ UNCHANGED <<variant, state, peer, should_keepalive, pinged, failed, invalid_json>>

\* the endpoint after accept: CONNECTED, keepalive task created
LInit(v) ==
  /\ variant = v
  /\ state = "CONNECTED"
  /\ peer = "open"
  /\ should_keepalive = TRUE
  /\ send_lock = "free"
  /\ writing = {}
  /\ at = [p \in Procs |-> CASE p = "loop" -> "while" [] p = "ka" -> "created"
                             [] p = "gen" -> "none"]
  /\ sending = [p \in Senders |-> "none"]
  /\ cancelling = [p \in Procs |-> FALSE]
  /\ pinged = {}
  /\ failed = FALSE
  /\ invalid_json = "none"

LNext ==
  \/ PeerGone
  \/ LoopWhile
  \/ RecvTimeout
  \/ RecvDisconnected
  \/ RecvInvalidJson
  \/ RecvAnswered
  \/ RecvUtterance
  \/ LoopSent
  \/ \E p \in Senders : LockGranted(p)
  \/ LoopFinally
  \/ LoopAwaitedAiTask
  \/ LoopAwaitedKeepalive
  \/ LoopClosed
  \/ KeepaliveStart
  \/ KeepaliveWake
  \/ KeepaliveSent
  \/ KeepaliveCancelled
  \/ GenStart
  \/ GenProviderReturns
  \/ GenSent
  \/ GenCancelled

(***************************************************************************)
(* Utterance segmenter: TranscriptAccumulator (app/services/transcript.py). *)
(* A text is a sequence of words and blanks ("_"); WordChars spells a word. *)
(* Times are in half seconds.                                              *)
(***************************************************************************)
WordChars(w) ==
  CASE w = "_" -> <<" ">>
    [] w = "What" -> <<"W", "h", "a", "t">>
    [] w = "what" -> <<"w", "h", "a", "t">>
    [] w = "is" -> <<"i", "s">>
    [] w = "REST?" -> <<"R", "E", "S", "T", "?">>
    [] w = "rest?" -> <<"r", "e", "s", "t", "?">>
    [] w = "REST" -> <<"R", "E", "S", "T">>
    [] w = "rest" -> <<"r", "e", "s", "t">>
    [] w = "and" -> <<"a", "n", "d">>
    [] w = "why" -> <<"w", "h", "y">>
    [] w = "why?" -> <<"w", "h", "y", "?">>
    [] w = "Tell" -> <<"T", "e", "l", "l">>
    [] w = "tell" -> <<"t", "e", "l", "l">>
    [] w = "me" -> <<"m", "e">>
    [] w = "how" -> <<"h", "o", "w">>
    [] w = "when" -> <<"w", "h", "e", "n">>
    [] w = "where" -> <<"w", "h", "e", "r", "e">>
    [] w = "who" -> <<"w", "h", "o">>
    [] w = "What's" -> <<"W", "h", "a", "t", "'", "s">>
    [] w = "what's" -> <<"w", "h", "a", "t", "'", "s">>
    [] w = "your" -> <<"y", "o", "u", "r">>
    [] w = "approach" -> <<"a", "p", "p", "r", "o", "a", "c", "h">>
    [] w = "to" -> <<"t", "o">>
    [] w = "caching" -> <<"c", "a", "c", "h", "i", "n", "g">>

\* the characters of a text
RECURSIVE chars(_)
chars(s) == IF s = <<>> THEN <<>> ELSE WordChars(Head(s)) \o chars(Tail(s))

\* len(s)
py_len(s) == Len(chars(s))

\* s.lower()
text_lower(s) ==
  [i \in 1..Len(s) |-> CASE s[i] = "What" -> "what"
                         [] s[i] = "What's" -> "what's"
                         [] s[i] = "REST?" -> "rest?"
                         [] s[i] = "REST" -> "rest"
                         [] s[i] = "Tell" -> "tell"
                         [] OTHER -> s[i]]

\* s.split()
RECURSIVE split(_)
split(s) ==
  IF s = <<>> THEN <<>>
  ELSE IF Head(s) = "_" THEN split(Tail(s)) ELSE <<Head(s)>> \o split(Tail(s))

\* cs.endswith(suffix), on characters
endswith(cs, suffix) ==
  /\ Len(suffix) <= Len(cs)
  /\ SubSeq(cs, Len(cs) - Len(suffix) + 1, Len(cs)) = suffix

min_question_length == 10
LooksIncompleteMinLen == 5
LooksIncompleteMinWords == 5

incomplete_endings ==
  {"and", "or", "but", "so", "the", "a", "an", "is", "are", "was", "were",
   "what's", "how's", "where's", "tell me", "explain", "describe", "you", "your", "my"}

EndPunctuation == {<<"?">>, <<".">>, <<"!">>}

QuestionEndings == {"what", "how", "why", "when", "where", "who"}

_looks_incomplete(s) ==
  LET text == text_lower(strip(s))
      words == split(text)
      last_word == IF words # <<>> THEN words[Len(words)] ELSE ""
  IN \/ py_len(text) < LooksIncompleteMinLen
     \/ last_word \in incomplete_endings
     \/ /\ Len(words) < LooksIncompleteMinWords
        /\ ~ \E p \in EndPunctuation : endswith(chars(text), p)
     \/ \E w \in QuestionEndings : endswith(chars(text), WordChars(w))

continuation_starts == {"and", "or", "but", "so", "also", "then"}
ContinuationOverlap == 2

_is_continuation(previous, current) ==
  LET prev_lower == strip(text_lower(previous))
      curr_lower == strip(text_lower(current))
      cw == split(curr_lower)
      first_word == IF cw # <<>> THEN cw[1] ELSE ""
      prev_words == {split(prev_lower)[i] : i \in 1..Len(split(prev_lower))}
      curr_words == {cw[i] : i \in 1..Len(cw)}
  IN \/ first_word \in continuation_starts
     \/ Cardinality(prev_words \cap curr_words) > ContinuationOverlap

(***************************************************************************)
(* difflib.SequenceMatcher(None, a, b).ratio() on texts shorter than the   *)
(* 200 characters at which the popularity heuristic starts.                *)
(***************************************************************************)
\* length of the common run of a from i and b from j
RECURSIVE run_len(_, _, _, _)
run_len(a, i, b, j) ==
  IF i > Len(a) \/ j > Len(b) THEN 0
  ELSE IF a[i] # b[j] THEN 0 ELSE 1 + run_len(a, i + 1, b, j + 1)

SetMax(S) == CHOOSE x \in S : \A y \in S : y <= x
SetMin(S) == CHOOSE x \in S : \A y \in S : x <= y

\* find_longest_match: the longest block, earliest in a, then earliest in b
\* (a longest block begins where a common run begins)
find_longest_match(a, b) ==
  LET starts == {p \in (1..Len(a)) \X (1..Len(b)) :
                   /\ a[p[1]] = b[p[2]]
                   /\ (p[1] = 1 \/ p[2] = 1 \/ a[p[1] - 1] # b[p[2] - 1])}
      runs == [p \in starts |-> run_len(a, p[1], b, p[2])]
      k == IF starts = {} THEN 0 ELSE SetMax({runs[p] : p \in starts})
      i == SetMin({p[1] : p \in {q \in starts : runs[q] = k}})
      j == SetMin({p[2] : p \in {q \in starts : runs[q] = k /\ q[1] = i}})
  IN IF k = 0 THEN [i |-> 0, j |-> 0, size |-> 0] ELSE [i |-> i, j |-> j, size |-> k]

\* sum of the sizes of get_matching_blocks()
RECURSIVE matching_chars(_, _)
matching_chars(a, b) ==
  IF a = <<>> \/ b = <<>> THEN 0
  ELSE LET m == find_longest_match(a, b)
       IN IF m.size = 0 THEN 0
          ELSE m.size
               + matching_chars(SubSeq(a, 1, m.i - 1), SubSeq(b, 1, m.j - 1))
               + matching_chars(SubSeq(a, m.i + m.size, Len(a)),
                                SubSeq(b, m.j + m.size, Len(b)))

ThresholdPercent == 85

\* SequenceMatcher(None, a, b).ratio() > 0.85, ratio = 2.0 * matches / (len(a) + len(b))
ratio_exceeds(a, b) ==
  IF Len(a) + Len(b) = 0 THEN TRUE
  ELSE 200 * matching_chars(a, b) > ThresholdPercent * (Len(a) + Len(b))

_is_duplicate(text) ==
  LET text_lower_ == strip(text_lower(text))
  IN \E n \in 1..Len(complete_paragraphs) :
       ratio_exceeds(chars(text_lower_), chars(complete_paragraphs[n]))

\* collections.deque(maxlen=50).append
WindowLen == 50

window_append(dq, x) ==
  IF Len(dq) < WindowLen THEN Append(dq, x) ELSE Append(Tail(dq), x)

Emitted(text, by) == [text |-> text, by |-> by]

QuickPause == 3

\* the pause test of add_transcript on the buffer para last touched at time lst
should_complete(para, lst) ==
  \/ now - lst >= pause_threshold
  \/ now - lst >= QuickPause /\ ~_looks_incomplete(para)

\* add_transcript whose fast path returns every long final fragment at once
add_transcript_skips_completeness(text, is_final, speech_final) ==
  /\ calls < MaxCalls
  /\ calls' = calls + 1
  /\ LET clean == strip(text)
         fin == is_final \/ speech_final
     IN IF clean = <<>>
          THEN UNCHANGED <<current_paragraph, last_speech_time, is_speaking,
                           waiting_for_continuation, complete_paragraphs, emitted>>
        ELSE IF fin /\ py_len(clean) >= min_question_length
          THEN IF FALSE
                 THEN /\ current_paragraph' = clean
                      /\ last_speech_time' = now
                      /\ is_speaking' = TRUE
                      /\ waiting_for_continuation' = TRUE
                      /\ UNCHANGED <<complete_paragraphs, emitted>>
                 ELSE /\ current_paragraph' = <<>>
                      /\ is_speaking' = FALSE
                      /\ waiting_for_continuation' = FALSE
                      /\ last_speech_time' = now
                      /\ IF ~_is_duplicate(clean)
                           THEN /\ complete_paragraphs' =
                                     window_append(complete_paragraphs, text_lower(clean))
                                /\ emitted' = Append(emitted, Emitted(clean, "add_transcript"))
                           ELSE UNCHANGED <<complete_paragraphs, emitted>>
        ELSE LET para == IF ~fin THEN current_paragraph
                         ELSE IF current_paragraph # <<>>
                                   /\ _is_continuation(current_paragraph, clean)
                           THEN current_paragraph \o <<"_">> \o clean
                           ELSE clean
                 lst == IF fin THEN now ELSE last_speech_time
                 speaking == fin \/ is_speaking
                 completed == strip(para)
             IN /\ last_speech_time' = lst
                /\ IF speaking /\ para # <<>> /\ should_complete(para, lst)
                     THEN /\ current_paragraph' = <<>>
                          /\ is_speaking' = FALSE
                          /\ waiting_for_continuation' = FALSE
                          /\ IF py_len(completed) >= min_question_length
                                  /\ ~_is_duplicate(completed)
                               THEN /\ complete_paragraphs' =
                                         window_append(complete_paragraphs,
                                                       text_lower(completed))
                                    /\ emitted' =
                                         Append(emitted, Emitted(completed, "add_transcript"))
                               ELSE UNCHANGED <<complete_paragraphs, emitted>>
                     ELSE /\ current_paragraph' = para
                          /\ is_speaking' = speaking
                          /\ UNCHANGED <<waiting_for_continuation, complete_paragraphs,
                                         emitted>>
  /\ UNCHANGED <<pause_threshold, now>>

add_transcript(text, is_final, speech_final) ==
  /\ calls < MaxCalls
  /\ calls' = calls + 1
  /\ LET clean == strip(text)
         fin == is_final \/ speech_final
     IN IF clean = <<>>
          THEN UNCHANGED <<current_paragraph, last_speech_time, is_speaking,
                           waiting_for_continuation, complete_paragraphs, emitted>>
        ELSE IF fin /\ py_len(clean) >= min_question_length
          THEN IF _looks_incomplete(clean)
                 THEN /\ current_paragraph' = clean
                      /\ last_speech_time' = now
                      /\ is_speaking' = TRUE
                      /\ waiting_for_continuation' = TRUE
                      /\ UNCHANGED <<complete_paragraphs, emitted>>
                 ELSE /\ current_paragraph' = <<>>
                      /\ is_speaking' = FALSE
                      /\ waiting_for_continuation' = FALSE
                      /\ last_speech_time' = now
                      /\ IF ~_is_duplicate(clean)
                           THEN /\ complete_paragraphs' =
                                     window_append(complete_paragraphs, text_lower(clean))
                                /\ emitted' = Append(emitted, Emitted(clean, "add_transcript"))
                           ELSE UNCHANGED <<complete_paragraphs, emitted>>
        ELSE LET para == IF ~fin THEN current_paragraph
                         ELSE IF current_paragraph # <<>>
                                   /\ _is_continuation(current_paragraph, clean)
                           THEN current_paragraph \o <<"_">> \o clean
                           ELSE clean
                 lst == IF fin THEN now ELSE last_speech_time
                 speaking == fin \/ is_speaking
                 completed == strip(para)
             IN /\ last_speech_time' = lst
                /\ IF speaking /\ para # <<>> /\ should_complete(para, lst)
                     THEN /\ current_paragraph' = <<>>
                          /\ is_speaking' = FALSE
                          /\ waiting_for_continuation' = FALSE
                          /\ IF py_len(completed) >= min_question_length
                                  /\ ~_is_duplicate(completed)
                               THEN /\ complete_paragraphs' =
                                         window_append(complete_paragraphs,
                                                       text_lower(completed))
                                    /\ emitted' =
                                         Append(emitted, Emitted(completed, "add_transcript"))
                               ELSE UNCHANGED <<complete_paragraphs, emitted>>
                     ELSE /\ current_paragraph' = para
                          /\ is_speaking' = speaking
                          /\ UNCHANGED <<waiting_for_continuation, complete_paragraphs,
                                         emitted>>
  /\ UNCHANGED <<pause_threshold, now>>

\* reset that clears the waiting flag and keeps the buffer
reset_keeps_buffer ==
  /\ calls < MaxCalls
  /\ calls' = calls + 1
  /\ waiting_for_continuation' = FALSE
  /\ UNCHANGED <<pause_threshold, current_paragraph, is_speaking, last_speech_time,
                 complete_paragraphs, now, emitted>>

reset ==
  /\ calls < MaxCalls
  /\ calls' = calls + 1
  /\ current_paragraph' = <<>>
  /\ is_speaking' = FALSE
  /\ last_speech_time' = 0
  /\ waiting_for_continuation' = FALSE
  /\ UNCHANGED <<pause_threshold, complete_paragraphs, now, emitted>>

\* force_complete without the length test
force_complete_any_length ==
  /\ calls < MaxCalls
  /\ calls' = calls + 1
  /\ IF current_paragraph # <<>>
       THEN /\ emitted' = Append(emitted, Emitted(strip(current_paragraph), "force_complete"))
            /\ current_paragraph' = <<>>
            /\ is_speaking' = FALSE
            /\ waiting_for_continuation' = FALSE
       ELSE UNCHANGED <<current_paragraph, is_speaking, waiting_for_continuation, emitted>>
  /\ UNCHANGED <<pause_threshold, last_speech_time, complete_paragraphs, now>>

force_complete ==
  /\ calls < MaxCalls
  /\ calls' = calls + 1
  /\ IF current_paragraph # <<>> /\ py_len(current_paragraph) >= min_question_length
       THEN /\ emitted' = Append(emitted, Emitted(strip(current_paragraph), "force_complete"))
            /\ current_paragraph' = <<>>
            /\ is_speaking' = FALSE
            /\ waiting_for_continuation' = FALSE
       ELSE UNCHANGED <<current_paragraph, is_speaking, waiting_for_continuation, emitted>>
  /\ UNCHANGED <<pause_threshold, last_speech_time, complete_paragraphs, now>>

\* half a second passes between two calls
Tick ==
  /\ now < Epoch + MaxTicks
  /\ now' = now + 1
  /\ UNCHANGED <<pause_threshold, current_paragraph, last_speech_time, is_speaking,
                 waiting_for_continuation, complete_paragraphs, calls, emitted>>

\* the recogniser's fragments: "What is REST?", " what is rest? ", "What is REST",
\* "and why", "and why?", "Tell me", " "
Fragments ==
  { <<"What", "_", "is", "_", "REST?">>,
    <<"_", "what", "_", "is", "_", "rest?", "_">>,
    <<"What", "_", "is", "_", "REST">>,
    <<"and", "_", "why">>,
    <<"and", "_", "why?">>,
    <<"Tell", "_", "me">>,
    <<"_">> }

\* pause_interval of 1 or 2 seconds
PauseThresholds == {2, 4}

\* TranscriptAccumulator(pause_threshold = p) just constructed
GInit(p) ==
  /\ pause_threshold = p
  /\ current_paragraph = <<>>
  /\ last_speech_time = 0
  /\ is_speaking = FALSE
  /\ waiting_for_continuation = FALSE
  /\ complete_paragraphs = <<>>
  /\ now = Epoch
  /\ calls = 0
  /\ emitted = <<>>

GNext ==
  \/ \E text \in Fragments, is_final, speech_final \in BOOLEAN :
       add_transcript(text, is_final, speech_final)
  \/ reset
  \/ force_complete
  \/ Tick

(***************************************************************************)
(* The accumulator fed with the fragments of one spoken question, every    *)
(* call logged.                                                            *)
(***************************************************************************)
\* "What's your approach" and "to caching"
T1 == <<"What's", "_", "your", "_", "approach">>
T2 == <<"to", "_", "caching">>

ScenarioFragments == {T1, T2}

Call(op, text, is_final, speech_final) ==
  [op |-> op, text |-> text, is_final |-> is_final, speech_final |-> speech_final, at |-> now]

FeedNext ==
  \/ \E text \in ScenarioFragments, is_final, speech_final \in BOOLEAN :
       /\ add_transcript(text, is_final, speech_final)
       /\ fed' = Append(fed, Call("add_transcript", text, is_final, speech_final))
  \/ reset /\ fed' = Append(fed, Call("reset", <<>>, FALSE, FALSE))
  \/ force_complete /\ fed' = Append(fed, Call("force_complete", <<>>, FALSE, FALSE))
  \/ Tick /\ UNCHANGED fed

\* "What is REST?" is returned at once when final; T1 is held back
T3 == <<"What", "_", "is", "_", "REST?">>

ResetFragments == {T1, T3}

\* a short log of calls on one accumulator; the clock is followed from the
\* first call on (before it nothing is buffered and last_speech_time is 0)
ResetNext ==
  /\ Len(fed) < MaxFed
  /\ \/ \E text \in ResetFragments, is_final, speech_final \in BOOLEAN :
          /\ add_transcript(text, is_final, speech_final)
          /\ fed' = Append(fed, Call("add_transcript", text, is_final, speech_final))
     \/ reset /\ fed' = Append(fed, Call("reset", <<>>, FALSE, FALSE))
     \/ force_complete /\ fed' = Append(fed, Call("force_complete", <<>>, FALSE, FALSE))
     \/ fed # <<>> /\ Tick /\ UNCHANGED fed

\* no call logged
FIdle == fed = <<>>

(***************************************************************************)
(* The writers of a session's recent questions: a turn that found a new    *)
(* question, a mock-question request, and add_prev_question.               *)
(***************************************************************************)
\* the texts generate_question_with_voice and get_fallback_question return
MockQuestions == {"m"}

Appending(s, q) ==
  /\ appended < MaxAppends
  /\ appended' = appended + 1
  /\ prev_questions' = [prev_questions EXCEPT ![s] = deque_append(@, q)]
  /\ UNCHANGED <<SESSION_CACHE, created, connection_state, loop_pc, current_session_id,
                 transcript_accumulator, ai_task, tasks, sent>>

\* run_ai_for_transcript: "if any(q.lower() == p.lower() ...): return", else append
TurnQuestion(s, q) == ~is_prev_question(s, q) /\ Appending(s, q)

\* request_mock_question: session["prev_questions"].append(...)
MockQuestion(s, q) == Appending(s, q)

\* add_prev_question(session_id, question)
add_prev_question(s, q) == Appending(s, q)

\* nothing appended
QIdle == appended = 0

QNext ==
  \/ \E s \in SessionIds, q \in Questions : TurnQuestion(s, q)
  \/ \E s \in SessionIds, q \in MockQuestions : MockQuestion(s, q)
  \/ \E s \in SessionIds, q \in Questions \cup MockQuestions : add_prev_question(s, q)

(***************************************************************************)
(* One session id of the store, the connections that init with it and the  *)
(* turns they run: which session objects a connection holds and which      *)
(* system prompt a turn sends.  "ws": the session is made by create_session*)
(* (app/ws/session_manager.py) and a turn is given session["cached_system_ *)
(* prompt"] when its task is created; update_cached_prompt replaces the    *)
(* stored prompt.  "routes": init makes the session on a cache miss, each  *)
(* connection keeps its own cached_system_prompt, read when the turn calls *)
(* process_transcript_with_ai and written back with the store after it.    *)
(* A session entry is [obj, prompt]: obj names the accumulator, questions  *)
(* and candidate cache made together; prompt None is no cached prompt.     *)
(***************************************************************************)
PConns == {1, 2}

\* merged.get("system_prompt"): no prompt, or one of two texts
Prompts == {1, 2}

\* the prompt process_transcript_with_ai builds for turn t: it contains the
\* candidate context, which every completed utterance extends
Built(t) == 10 + t

\* the id is not in the store
NoSession == [obj |-> None, prompt |-> None]

Unbound == [pc |-> "unbound", obj |-> None, prompt |-> None]

\* the session is made over HTTP (create_session; init_session of the legacy
\* module): one lookup, one insertion under a new uuid4
PCreateSession(p) ==
  /\ stored = NoSession
  /\ lookups < MaxLookups
  /\ lookups' = lookups + 1
  /\ stored' = [obj |-> lookups + 1, prompt |-> p]
  /\ UNCHANGED <<bound, turns>>

\* init naming the id: bind to the stored session, or (routes) start the lookup
PInit(c) ==
  /\ bound[c].pc # "lookup"
  /\ IF stored # NoSession
       THEN /\ bound' = [bound EXCEPT ![c] = [pc |-> "bound", obj |-> stored.obj,
                                             prompt |-> stored.prompt]]
            /\ UNCHANGED lookups
       ELSE /\ variant = "routes"
            /\ lookups < MaxLookups
            /\ lookups' = lookups + 1
            /\ bound' = [bound EXCEPT ![c] = [pc |-> "lookup", obj |-> lookups + 1,
                                             prompt |-> None]]
  /\ UNCHANGED <<stored, turns>>

\* routes: get_complete_settings returned; SESSION_CACHE[id] = {...}
PInitInsert(c, p) ==
  /\ bound[c].pc = "lookup"
  /\ stored' = [obj |-> bound[c].obj, prompt |-> p]
  /\ bound' = [bound EXCEPT ![c] = [pc |-> "bound", obj |-> bound[c].obj, prompt |-> p]]
  /\ UNCHANGED <<lookups, turns>>

\* routes: get_complete_settings raised; "Session initialization failed"
PInitFails(c) ==
  /\ bound[c].pc = "lookup"
  /\ bound' = [bound EXCEPT ![c] = Unbound]
  /\ UNCHANGED <<stored, lookups, turns>>

\* update_cached_prompt(session_id, prompt)
update_cached_prompt(p) ==
  /\ variant = "ws"
  /\ stored # NoSession
  /\ stored' = [stored EXCEPT !.prompt = p]
  /\ UNCHANGED <<bound, lookups, turns>>

\* a completed utterance: create_task(run_ai_for_transcript(...))
PStartTurn(c) ==
  /\ bound[c].pc = "bound"
  /\ stored # NoSession
  /\ Len(turns) < MaxTurns
  /\ turns' = Append(turns, [conn |-> c, pc |-> "created",
                             at_start |-> stored.prompt,
                             given |-> IF variant = "ws" THEN stored.prompt ELSE None,
                             used |-> None])
  /\ UNCHANGED <<stored, bound, lookups>>

\* variant: the turn reads the stored prompt when it calls the provider
PTurnCallReadsStore(t) ==
  /\ turns[t].pc = "created"
  /\ LET given == IF stored # NoSession THEN stored.prompt ELSE None
     IN turns' = [turns EXCEPT ![t].pc = "provider", ![t].given = given,
                               ![t].used = IF given # None THEN given ELSE Built(t)]
  /\ UNCHANGED <<stored, bound, lookups>>

\* process_transcript_with_ai(..., cached_system_prompt): "Build / reuse system prompt"
PTurnCall(t) ==
  /\ turns[t].pc = "created"
  /\ LET given == IF variant = "ws" THEN turns[t].given ELSE bound[turns[t].conn].prompt
     IN turns' = [turns EXCEPT ![t].pc = "provider", ![t].given = given,
                               ![t].used = IF given # None THEN given ELSE Built(t)]
  /\ UNCHANGED <<stored, bound, lookups>>

\* the result is back; routes: "if new_prompt and not cached_system_prompt"
PTurnResult(t) ==
  /\ turns[t].pc = "provider"
  /\ turns' = [turns EXCEPT ![t].pc = "done"]
  /\ LET c == turns[t].conn
         new_prompt == IF turns[t].given # None THEN None ELSE turns[t].used
     IN IF variant = "routes" /\ new_prompt # None /\ bound[c].prompt = None
          THEN /\ bound' = [bound EXCEPT ![c].prompt = new_prompt]
               /\ stored' = IF stored # NoSession THEN [stored EXCEPT !.prompt = new_prompt]
                                             ELSE stored
          ELSE UNCHANGED <<stored, bound>>
  /\ UNCHANGED lookups

\* no session stored, no connection bound
PIdle ==
  /\ stored = NoSession
  /\ bound = [c \in PConns |-> Unbound]
  /\ lookups = 0
  /\ turns = <<>>

PNext ==
  \/ \E p \in Prompts \cup {None} : PCreateSession(p)
  \/ \E c \in PConns : PInit(c)
  \/ \E c \in PConns, p \in Prompts \cup {None} : PInitInsert(c, p)
  \/ \E c \in PConns : PInitFails(c)
  \/ \E p \in Prompts : update_cached_prompt(p)
  \/ \E c \in PConns : PStartTurn(c)
  \/ \E t \in 1..Len(turns) : PTurnCall(t)
  \/ \E t \in 1..Len(turns) : PTurnResult(t)

\* one client connected
Init == HInit({1}) /\ SIdle /\ TIdle /\ GInit(DefaultPause) /\ FIdle /\ LInit("ws") /\ PIdle /\ QIdle

\* two clients connected (a client that reconnects while its old socket is still open)
InitShared == HInit({1, 2}) /\ SIdle /\ TIdle /\ GInit(DefaultPause) /\ FIdle /\ LInit("ws") /\ PIdle /\ QIdle

Next == HNext /\ UNCHANGED <<svars, tvars, gvars, fvars, lvars, pvars, qvars>>

Spec == Init /\ [][Next]_vars

SpecShared == InitShared /\ [][Next]_vars

\* one streamed turn, no connection
InitStream == HInit({}) /\ SInit /\ TIdle /\ GInit(DefaultPause) /\ FIdle /\ LInit("ws") /\ PIdle /\ QIdle

NextStream == SNext /\ UNCHANGED <<hvars, tvars, gvars, fvars, lvars, pvars, qvars>>

SpecStream == InitStream /\ [][NextStream]_vars

\* one request to process_transcript_with_ai, no connection
InitTurn == HInit({}) /\ TInit /\ GInit(DefaultPause) /\ FIdle /\ LInit("ws") /\ PIdle /\ QIdle

NextTurn == TNext /\ UNCHANGED <<hvars, gvars, fvars, lvars, pvars, qvars>>

SpecTurn == InitTurn /\ [][NextTurn]_vars

\* one accumulator, no connection
InitSeg == HInit({}) /\ SIdle /\ TIdle /\ FIdle /\ LInit("ws") /\ \E p \in PauseThresholds : GInit(p) /\ PIdle /\ QIdle

NextSeg == GNext /\ UNCHANGED <<hvars, svars, tvars, fvars, lvars, pvars, qvars>>

SpecSeg == InitSeg /\ [][NextSeg]_vars

\* time passes; the client's fragments are not the handler's to schedule, and
\* the receive timeout of the message loop ("continue") calls nothing
SpecSegTime ==
  InitSeg /\ [][NextSeg]_vars
    /\ WF_vars(Tick /\ UNCHANGED <<hvars, svars, tvars, fvars, lvars, pvars, qvars>>)

\* one accumulator with the default pause, its calls logged
InitFeed == HInit({}) /\ SIdle /\ TIdle /\ FIdle /\ LInit("ws") /\ GInit(DefaultPause) /\ PIdle /\ QIdle

NextFeed == FeedNext /\ UNCHANGED <<hvars, svars, tvars, lvars, pvars, qvars>>

SpecFeed == InitFeed /\ [][NextFeed]_vars

\* one accumulator with the default pause, a short log of calls
NextReset == ResetNext /\ UNCHANGED <<hvars, svars, tvars, lvars, pvars, qvars>>

SpecReset == InitFeed /\ [][NextReset]_vars

\* one connection of either handler, no session
InitConn == HInit({}) /\ SIdle /\ TIdle /\ GInit(DefaultPause) /\ FIdle /\ \E v \in Variants : LInit(v) /\ PIdle /\ QIdle

NextConn == LNext /\ UNCHANGED <<hvars, svars, tvars, gvars, fvars, pvars, qvars>>

SpecConn == InitConn /\ [][NextConn]_vars

\* the event loop runs every task of the handler that can run (the client's
\* frames and its departure are not the handler's to schedule)
LOthers == UNCHANGED <<hvars, svars, tvars, gvars, fvars, pvars, qvars>>

LFairness ==
  /\ WF_vars(LoopWhile /\ LOthers) /\ WF_vars(RecvTimeout /\ LOthers) /\ WF_vars(RecvDisconnected /\ LOthers)
  /\ WF_vars(LoopSent /\ LOthers) /\ WF_vars((\E p \in Senders : LockGranted(p)) /\ LOthers)
  /\ WF_vars(LoopFinally /\ LOthers) /\ WF_vars(LoopAwaitedAiTask /\ LOthers) /\ WF_vars(LoopAwaitedKeepalive /\ LOthers)
  /\ WF_vars(LoopClosed /\ LOthers)
  /\ WF_vars(KeepaliveStart /\ LOthers) /\ WF_vars(KeepaliveWake /\ LOthers) /\ WF_vars(KeepaliveSent /\ LOthers)
  /\ WF_vars(KeepaliveCancelled /\ LOthers)
  /\ WF_vars(GenStart /\ LOthers) /\ WF_vars(GenProviderReturns /\ LOthers) /\ WF_vars(GenSent /\ LOthers)
  /\ WF_vars(GenCancelled /\ LOthers)

SpecConnFair == InitConn /\ [][NextConn]_vars /\ LFairness

\* one session id, two connections of either handler
InitSess == HInit({}) /\ SIdle /\ TIdle /\ GInit(DefaultPause) /\ FIdle /\ PIdle /\ \E v \in Variants : LInit(v) /\ QIdle

NextSess == PNext /\ UNCHANGED <<hvars, svars, tvars, gvars, fvars, lvars, qvars>>

SpecSess == InitSess /\ [][NextSess]_vars

\* the recent questions of one session and their writers
InitRecent == HInit({}) /\ SIdle /\ TIdle /\ GInit(DefaultPause) /\ FIdle /\ LInit("ws") /\ PIdle /\ QIdle

NextRecent == QNext /\ UNCHANGED <<svars, tvars, gvars, fvars, lvars, pvars>>

SpecRecent == InitRecent /\ [][NextRecent]_vars

(***************************************************************************)
(* Claims about the connection handler.                                    *)
(***************************************************************************)
\* a generation task that is neither finished nor cancelled
Active(t) == tasks[t].pc # "done" /\ ~tasks[t].cancel_requested

ActiveTasksOf(s) == {t \in TaskIds : tasks[t].sid = s /\ Active(t)}

RECURSIVE CountMsgs(_, _, _)
CountMsgs(q, type, id) ==
  IF q = <<>> THEN 0
  ELSE (IF Head(q).type = type /\ Head(q).id = id THEN 1 ELSE 0)
       + CountMsgs(Tail(q), type, id)

\* C1: for every session id, at most one generation task is neither finished
\* nor cancelled, counting the tasks of every connection bound to that session.
C1_OneActiveTaskPerSession ==
  \A s \in SessionIds : Cardinality(ActiveTasksOf(s)) <= 1

\* C2: on one connection, once an event of a newer turn has been sent, no
\* event of an older turn (answer_cancelled included) is sent afterwards.
C2_NoInterleaving ==
  \A c \in Conns : \A i, j \in 1..Len(sent[c]) :
    (i < j /\ sent[c][i].turn # None /\ sent[c][j].turn # None)
      => sent[c][i].turn <= sent[c][j].turn

\* C3: when an utterance completes while the connection's previous task is
\* still running, the previous task's cancellation is requested before the new
\* task is created, and no event of the new turn is sent before that request.
C3_CancelBeforeNewTurn ==
  \A t, u \in TaskIds :
    (u < t /\ tasks[u].conn = tasks[t].conn) =>
      /\ tasks[u].pc = "done" \/ tasks[u].cancel_requested
      /\ \A i \in 1..Len(sent[tasks[t].conn]) :
           (sent[tasks[t].conn][i].turn = t /\ tasks[u].cancel_requested)
             => i > tasks[u].cancel_at

\* a turn was superseded while running and the newer turn has already sent an event
C3_Witness ==
  \E t, u \in TaskIds :
    /\ u < t /\ tasks[u].conn = tasks[t].conn
    /\ tasks[u].superseded
    /\ \E i \in 1..Len(sent[tasks[t].conn]) : sent[tasks[t].conn][i].turn = t

\* C4: a running turn superseded by a newer utterance while the connection
\* stays CONNECTED sends exactly one answer_cancelled with its request id,
\* at whatever await the cancellation reaches it.
C4_SupersededSendsOneCancelled ==
  \A t \in TaskIds :
    (/\ tasks[t].superseded
     /\ tasks[t].pc = "done"
     /\ connection_state[tasks[t].conn] = "CONNECTED"
     /\ loop_pc[tasks[t].conn] = "loop")
      => CountMsgs(sent[tasks[t].conn], "answer_cancelled", t) = 1

\* C5: after cancellation of a turn has been requested, the only event still
\* sent for that turn is answer_cancelled.
C5_OnlyCancelledAfterCancel ==
  \A t \in TaskIds : \A i \in 1..Len(sent[tasks[t].conn]) :
    (/\ tasks[t].cancel_requested
     /\ sent[tasks[t].conn][i].turn = t
     /\ i > tasks[t].cancel_at)
      => sent[tasks[t].conn][i].type = "answer_cancelled"

\* a turn cancelled while waiting on the provider has sent its answer_cancelled
C5_Witness ==
  \E t \in TaskIds : \E i \in 1..Len(sent[tasks[t].conn]) :
    /\ tasks[t].cancel_requested
    /\ i > tasks[t].cancel_at
    /\ sent[tasks[t].conn][i] = Msg("answer_cancelled", t, t)

(***************************************************************************)
(* Claims about one streamed turn.                                         *)
(***************************************************************************)
RECURSIVE concat_deltas(_)
concat_deltas(evs) ==
  IF evs = <<>> THEN <<>>
  ELSE (IF Head(evs).type = "delta" THEN Head(evs).text ELSE <<>>) \o concat_deltas(Tail(evs))

RECURSIVE count_type(_, _)
count_type(q, type) ==
  IF q = <<>> THEN 0
  ELSE (IF Head(q).type = type THEN 1 ELSE 0) + count_type(Tail(q), type)

\* C6: the answer_delta texts of a turn, concatenated in emission order, equal
\* the answer carried by the turn's final done event.
C6_DeltasConcatToAnswer ==
  (gen_state = "done" /\ final.has_question) => concat_deltas(events) = final.answer

C8_QuestionBeforeDeltas ==
  /\ \A j \in 1..Len(events) :
       events[j].type = "delta" =>
         /\ events[j].text # <<>>
         /\ \E i \in 1..(j - 1) : events[i].type = "question"
  /\ (contains(buf, "A") /\ count_type(events, "delta") > 0)
       => concat_deltas(events) = after_first(buf, "A")

(***************************************************************************)
(* Claims about the utterance segmenter.                                   *)
(***************************************************************************)
\* C9: every utterance returned by add_transcript or force_complete, after any
\* sequence of add_transcript, reset and force_complete calls, has at least
\* min_question_length (10) characters.
C9_MinLength ==
  \A i \in 1..Len(emitted) : py_len(emitted[i].text) >= min_question_length

\* both add_transcript and force_complete have returned an utterance
C9_Witness ==
  /\ \E i \in 1..Len(emitted) : emitted[i].by = "add_transcript"
  /\ \E i \in 1..Len(emitted) : emitted[i].by = "force_complete"

\* C10: no utterance is emitted whose lower-cased similarity ratio to one of
\* the last 50 emitted utterances exceeds 0.85, and every emitted utterance is
\* recorded in the window.
C10_NoDuplicateEmitted ==
  /\ \A i, j \in 1..Len(emitted) :
       (i < j /\ j - i <= WindowLen)
         => ~ratio_exceeds(chars(text_lower(emitted[j].text)),
                           chars(text_lower(emitted[i].text)))
  /\ \A i \in 1..Len(emitted) :
       \E n \in 1..Len(complete_paragraphs) :
         complete_paragraphs[n] = text_lower(emitted[i].text)

\* the first two calls are (T1, interim) then (T2, final, speech_final), and
\* every later call is an interim fragment
InScenario ==
  /\ Len(fed) >= 2
  /\ fed[1] = [Call("add_transcript", T1, FALSE, FALSE) EXCEPT !.at = fed[1].at]
  /\ fed[2] = [Call("add_transcript", T2, TRUE, TRUE) EXCEPT !.at = fed[2].at]
  /\ \A n \in 3..Len(fed) :
       fed[n].op = "add_transcript" /\ ~fed[n].is_final /\ ~fed[n].speech_final

\* C11: for (t1, interim) then (t2, final, speech_final) with t2 continuing t1,
\* followed by a silence of at least the pause threshold, exactly one utterance
\* t1 + " " + t2 is emitted, and never t1 alone or t2 alone.
C11_ContinuationJoined ==
  InScenario =>
    /\ \A i \in 1..Len(emitted) : emitted[i].text \notin {T1, T2}
    /\ (Len(fed) >= 3 /\ fed[3].at - fed[2].at >= pause_threshold)
         => emitted = <<Emitted(T1 \o <<"_">> \o T2, "add_transcript")>>

(***************************************************************************)
(* Claims about one request to process_transcript_with_ai.                 *)
(***************************************************************************)
\* C12: for an utterance that matches a reject pattern, or has fewer than 15
\* words and no interrogative cue, the request resolves with has_question
\* false and the provider is never called, streaming or not.
C12_RejectedNeverCallsProvider ==
  (gen_state # "idle" /\ should_skip_transcript(transcript)) =>
    /\ provider_calls = 0
    /\ gen_state \in {"requested", "returned", "handled"}
    /\ gen_state \in {"returned", "handled"} => ~final.has_question

\* a streaming request for "ok anything else" has returned
C12_Witness ==
  /\ transcript = <<"ok", "_", "anything else">>
  /\ req = [stream |-> TRUE, settings |-> TRUE]
  /\ gen_state = "returned"

(***************************************************************************)
(* Claims about the connection lifecycle.                                  *)
(***************************************************************************)
\* C13: the connection state only moves forward along CONNECTED,
\* DISCONNECTING, DISCONNECTED: DISCONNECTED is never left and DISCONNECTING
\* never returns to CONNECTED, whatever the interleaving of the loop, the
\* heartbeat task, the generation task and teardown.
C13_StateMovesForward ==
  [][/\ state = "DISCONNECTED" => state' = "DISCONNECTED"
     /\ state = "DISCONNECTING" => state' # "CONNECTED"]_vars

\* C14: every send or receive failure moves the state to DISCONNECTING before
\* teardown sets DISCONNECTED: the state never goes from CONNECTED to
\* DISCONNECTED in one step.
C14_NeverConnectedToDisconnected ==
  [][~(state = "CONNECTED" /\ state' = "DISCONNECTED")]_vars

\* C16: at most one outbound write is in progress at a time, and every write,
\* heartbeat pings included, is made by the holder of send_lock.
C16_WritesSerialised ==
  /\ Cardinality(writing) <= 1
  /\ \A p \in writing : send_lock = p

\* C17: a heartbeat ping is sent only while the state is CONNECTED, also when
\* the state changed during the interval sleep.
C17_PingOnlyWhenConnected ==
  pinged \subseteq {"CONNECTED"}

\* C18: a text frame that is not JSON is answered with an error message and
\* the loop continues: no teardown runs because of it and the state stays
\* CONNECTED, so later frames are processed.
C18_InvalidJsonAnswered ==
  (invalid_json = "received" /\ ~failed /\ peer = "open")
    => /\ state = "CONNECTED"
       /\ at["loop"] \in {"send_lock", "send_json"}

\* C15: after a send or receive failure, a heartbeat failure or a client
\* disconnect, the handler eventually is DISCONNECTED with the generation
\* task ended and the heartbeat task ended.
C15_FailureLeadsToCleanup ==
  failed ~> (state = "DISCONNECTED" /\ done("gen") /\ done("ka"))

\* the frame is answered with one error message, the loop stays in CONNECTED
\* and no task is created or cancelled
AnsweredWithError(c) ==
  /\ sent'[c] = Append(sent[c], Msg("error", None, None))
  /\ connection_state'[c] = "CONNECTED"
  /\ loop_pc'[c] = "loop"
  /\ tasks' = tasks
  /\ ai_task' = ai_task

\* C19: a transcript frame received before a successful init, and an init
\* frame naming a session id absent from the store, are each answered with an
\* error message; the loop continues in CONNECTED and the frame starts no
\* generation task.
C19_InputErrorsAnswered ==
  [][\A c \in Conns :
       /\ (\E completed \in BOOLEAN :
              MsgTranscript(c, completed) /\ transcript_accumulator[c] = None)
            => AnsweredWithError(c)
       /\ (\E sid \in SessionIds \cup {UnknownSid} :
              MsgInit(c, sid) /\ get_session(sid) = None)
            => AnsweredWithError(c)]_vars

\* the store holds a session, the connection has made no successful init, its
\* frame (a transcript, or an init naming an unknown id) was answered with an
\* error, and its loop is still receiving with no task started
C19_Witness ==
  \E c \in Conns :
    /\ SESSION_CACHE # {}
    /\ transcript_accumulator[c] = None
    /\ sent[c] = <<Msg("error", None, None)>>
    /\ connection_state[c] = "CONNECTED" /\ loop_pc[c] = "loop"
    /\ ai_task[c] = None /\ tasks = <<>>

\* the events of one type the non-streaming block sent for the turn
TurnSent(type) == {i \in 1..Len(turn_sent) : turn_sent[i].type = type}

\* C20: when the provider call of a turn times out or fails in transport,
\* exactly one error event is sent for the turn, no answer_ready and no
\* answer_delta is sent for it, and the provider is called once.
C20_ProviderFailureOneError ==
  (gen_state = "handled" /\ provider_failure # "none") =>
    /\ Cardinality(TurnSent("error")) = 1
    /\ TurnSent("answer_ready") = {} /\ TurnSent("answer_delta") = {}
    /\ provider_calls = 1

\* turn t has sent an error event on its connection
SentError(t) ==
  \E i \in 1..Len(sent[tasks[t].conn]) : sent[tasks[t].conn][i] = Msg("error", None, t)

\* C21: the step in which a turn sends the error event of a provider failure
\* leaves the connection's state, its loop and its session binding as they
\* were; and when the connection's last turn ended with such an error, the
\* next completed utterance (its session still stored) creates a new task.
C21_ErrorKeepsSessionUsable ==
  [][/\ \A t \in TaskIds :
          (tasks[t].pc = "provider" /\ tasks'[t].pc = "error") =>
            /\ connection_state' = connection_state
            /\ loop_pc' = loop_pc
            /\ current_session_id' = current_session_id
            /\ transcript_accumulator' = transcript_accumulator
            /\ SESSION_CACHE' = SESSION_CACHE
     /\ \A c \in Conns :
          (/\ ai_task[c] # None
           /\ SentError(ai_task[c])
           /\ get_session(current_session_id[c]) # None
           /\ Len(tasks) < MaxTasks
           /\ MsgTranscript(c, TRUE))
            => /\ Len(tasks') = Len(tasks) + 1
               /\ ai_task'[c] = Len(tasks')
               /\ tasks'[Len(tasks')].conn = c /\ tasks'[Len(tasks')].pc = "created"
               /\ loop_pc'[c] = "loop" /\ connection_state'[c] = "CONNECTED"]_vars

\* the first turn ended with an error event, the connection is still receiving
\* with its session bound, and the turn of the next utterance has sent its
\* answer_start under a new request id
C21_Witness ==
  \E c \in Conns : \E t, u \in TaskIds :
    /\ t < u /\ tasks[t].conn = c /\ tasks[u].conn = c
    /\ SentError(t) /\ ~tasks[t].cancel_requested
    /\ connection_state[c] = "CONNECTED" /\ loop_pc[c] = "loop"
    /\ current_session_id[c] # None /\ transcript_accumulator[c] # None
    /\ \E i \in 1..Len(sent[c]) : sent[c][i] = Msg("answer_start", u, u)

\* the output is not empty, does not start with SKIP and lacks the marker pair
Unmarked(output) ==
  /\ strip(output) # <<>>
  /\ ~starts_with_skip(strip(output))
  /\ ~(contains(output, "Q") /\ contains(output, "A"))

UnmarkedOutputs == {raw \in Outputs : Unmarked(raw)}

\* the fallback result: the utterance as question, the whole output as answer
\* (both without their surrounding blanks, which _finalize_parse removes)
FallbackResult(output) == Result(TRUE, strip(transcript), strip(output))

EndedCancelled(t) ==
  /\ tasks[t].cancel_requested
  /\ tasks[t].pc = "done"
  /\ \A i \in 1..Len(sent[tasks[t].conn]) :
       sent[tasks[t].conn][i] # Msg("answer_ready", t, t)

\* C23: a turn that ends by cancellation leaves the session's recent questions
\* as they were when it started.  Stated for a session all of whose turns so
\* far ended by cancellation: its recent questions are still empty.
C23_CancelledTurnWritesNothing ==
  \A s \in SessionIds :
    (\A t \in TaskIds : tasks[t].sid = s => EndedCancelled(t))
      => prev_questions[s] = <<>>

(***************************************************************************)
(* Claims about the stored session and the cached prompt.                  *)
(***************************************************************************)
Called(t) == turns[t].pc \in {"provider", "done"}

\* C24: in the mounted handler the prompt a turn passes to the provider is the
\* value the session's cached prompt held when the turn started, whole: a
\* replacement made by update_cached_prompt while the turn runs is not seen
\* by it (with no cached prompt at the start the turn builds its own).
C24_TurnUsesPromptOfItsStart ==
  variant = "ws" =>
    \A t \in 1..Len(turns) :
      Called(t) =>
        /\ turns[t].given = turns[t].at_start
        /\ turns[t].used = IF turns[t].at_start # None THEN turns[t].at_start ELSE Built(t)

\* a turn is at the provider with the prompt of its start while the store
\* already holds the replacement
C24_Witness ==
  /\ variant = "ws"
  /\ \E t \in 1..Len(turns) :
       /\ turns[t].pc = "provider"
       /\ turns[t].at_start # None
       /\ turns[t].used = turns[t].at_start
       /\ stored.prompt # None
       /\ stored.prompt # turns[t].at_start

\* C25: in the legacy handler, once the session's cached prompt is set, no
\* step of a turn changes the stored value and every turn that calls the
\* provider afterwards sends exactly the stored value.
C25_CachedPromptFixed ==
  [][(variant = "routes" /\ stored.prompt # None /\ turns' # turns) =>
       /\ stored'.prompt = stored.prompt
       /\ \A t \in 1..Len(turns) :
            (turns[t].pc = "created" /\ turns'[t].pc = "provider") =>
              turns'[t].used = stored.prompt]_vars

\* C26: in the legacy handler every bound connection holds the objects of the
\* one stored session, and no two connections run the settings lookup for
\* the id at once.
C26_OneLookupOneSession ==
  variant = "routes" =>
    /\ Cardinality({c \in PConns : bound[c].pc = "lookup"}) <= 1
    /\ \A c \in PConns : bound[c].pc = "bound" => bound[c].obj = stored.obj


(***************************************************************************)
(* Claims about the events of a turn and about the accumulator's reset and *)
(* flush.                                                                  *)
(***************************************************************************)
\* C27: every event sent by the code of an answer cycle carries the cycle's
\* request id in its "id" field.
C27_EventsCarryCycleId ==
  \A c \in Conns :
    \A i \in 1..Len(sent[c]) :
      sent[c][i].turn # None => sent[c][i].id = sent[c][i].turn

\* C28: force_complete on a non-empty buffer returns the buffer's text and
\* empties the buffer, whatever its length.
C28_ForceCompleteFlushes ==
  [][(force_complete /\ current_paragraph # <<>>) =>
       /\ Len(emitted') = Len(emitted) + 1
       /\ emitted'[Len(emitted')] = Emitted(strip(current_paragraph), "force_complete")
       /\ current_paragraph' = <<>>]_vars

\* the words of a text
words(s) == {s[i] : i \in 1..Len(s)} \ {"_"}

\* the position of the last reset in a log of calls, 0 if there is none
LastReset(log) ==
  LET R == {i \in 1..Len(log) : log[i].op = "reset"}
  IN IF R = {} THEN 0 ELSE CHOOSE i \in R : \A j \in R : j <= i

Logged(op) == Len(fed') = Len(fed) + 1 /\ fed'[Len(fed')].op = op

\* C29: reset empties the buffer, clears the speaking and waiting flags,
\* returns no utterance and leaves the dedup window as it was; a
\* force_complete right after it returns nothing; and an utterance returned
\* by a later add_transcript has only words fed after the reset.
C29_ResetDiscardsBuffer ==
  [][/\ Logged("reset") =>
          /\ current_paragraph' = <<>>
          /\ ~is_speaking' /\ ~waiting_for_continuation'
          /\ emitted' = emitted
          /\ complete_paragraphs' = complete_paragraphs
     /\ (fed # <<>> /\ fed[Len(fed)].op = "reset" /\ Logged("force_complete")) =>
          emitted' = emitted
     /\ (LastReset(fed) > 0 /\ Logged("add_transcript")
           /\ Len(emitted') = Len(emitted) + 1) =>
          words(emitted'[Len(emitted')].text) \subseteq
            UNION {words(fed'[j].text) : j \in (LastReset(fed) + 1)..Len(fed')}]_vars

\* "What's your approach" was held back as incomplete, reset dropped it, and
\* the one utterance returned since is the "What is REST?" fed after the reset
C29_Witness ==
  /\ Len(fed) = 3
  /\ fed[1].op = "add_transcript" /\ fed[1].text = T1 /\ fed[1].is_final
  /\ fed[2].op = "reset"
  /\ fed[3].op = "add_transcript"
  /\ emitted = <<Emitted(T3, "add_transcript")>>
  /\ current_paragraph = <<>>

\* C30: a session's recent questions never hold more than 10 entries, and an
\* append to a full buffer drops the oldest entry and keeps the other nine
\* in order, followed by the new one.
C30_RecentQuestionsBounded ==
  [][\A s \in SessionIds :
       /\ Len(prev_questions'[s]) <= 10
       /\ (Len(prev_questions[s]) = 10 /\ appended' = appended + 1) =>
            /\ Len(prev_questions'[s]) = 10
            /\ \A i \in 1..9 : prev_questions'[s][i] = prev_questions[s][i + 1]]_vars

\* eleven questions were appended: the buffer is full, the first one is gone
\* and the question appended second is now the oldest
C30_Witness ==
  /\ appended = 11
  /\ \E s \in SessionIds :
       /\ Len(prev_questions[s]) = 10
       /\ prev_questions[s][1] = "a"
       /\ \A i \in 2..10 : prev_questions[s][i] = "m"

(***************************************************************************)
(* Claims about the end of a turn, the streaming path and the pause rule.  *)
(***************************************************************************)
TerminalTypes == {"answer_ready", "answer_cancelled", "error"}

\* the positions of the terminal events turn t sent on its connection
Terminals(t) ==
  {i \in 1..Len(sent[tasks[t].conn]) :
     sent[tasks[t].conn][i].turn = t /\ sent[tasks[t].conn][i].type \in TerminalTypes}

SentStart(t) ==
  \E i \in 1..Len(sent[tasks[t].conn]) : sent[tasks[t].conn][i] = Msg("answer_start", t, t)

\* C31: a turn that sent answer_start and is over, on a connection that is
\* still CONNECTED, has sent exactly one terminal event (answer_ready,
\* answer_cancelled or error) and nothing after it.
C31_OneTerminalEvent ==
  \A t \in TaskIds :
    (tasks[t].pc = "done" /\ SentStart(t) /\ connection_state[tasks[t].conn] = "CONNECTED") =>
      /\ Cardinality(Terminals(t)) = 1
      /\ \A i \in Terminals(t) :
           \A j \in (i + 1)..Len(sent[tasks[t].conn]) : sent[tasks[t].conn][j].turn # t

\* C32: when the handler asks for a streamed turn, the object its call returns
\* is taken as an event stream: the turn goes on as the generator, still
\* requested with stream.
C32_StreamingPathTaken ==
  [][(stream_obj = "unset" /\ stream_obj' # "unset") =>
       (has_aiter(stream_obj') /\ gen_state' = "generator" /\ req'.stream)]_vars

\* the pending buffer holds text that would be returned: long enough and no
\* duplicate of the window
BufferReady ==
  /\ current_paragraph # <<>>
  /\ py_len(strip(current_paragraph)) >= min_question_length
  /\ ~_is_duplicate(strip(current_paragraph))

PausePassed == now - last_speech_time >= pause_threshold

\* C33: with such a buffer, an add_transcript call made at least
\* pause_threshold after the last buffered fragment returns the buffer as an
\* utterance, for an interim and for a final fragment alike (a blank fragment
\* is not counted as a fragment).
C33_PauseReturnsBuffer ==
  [][(BufferReady /\ PausePassed) =>
       \A text \in Fragments, is_final, speech_final \in BOOLEAN :
         (strip(text) # <<>> /\ add_transcript(text, is_final, speech_final)) =>
           emitted' = Append(emitted, Emitted(strip(current_paragraph), "add_transcript"))]_vars

\* C34: a buffer that holds returnable text is returned as an utterance some
\* time after the silence has lasted pause_threshold, whether or not another
\* fragment arrives.
C34_BufferEventuallyEmitted ==
  \A n \in 0..MaxCalls :
    (BufferReady /\ PausePassed /\ Len(emitted) = n) ~> (Len(emitted) > n)

\* C35: a final or speech-final fragment that stays pending on a non-empty
\* buffer is appended to the buffer after a blank when it is a continuation
\* of it, and replaces the buffer otherwise, whatever its length.
C35_MergeOrReplace ==
  [][current_paragraph # <<>> =>
       \A text \in Fragments, is_final, speech_final \in BOOLEAN :
         (/\ is_final \/ speech_final
          /\ strip(text) # <<>>
          /\ add_transcript(text, is_final, speech_final)
          /\ current_paragraph' # <<>>) =>
           current_paragraph' =
             IF _is_continuation(current_paragraph, strip(text))
               THEN current_paragraph \o <<"_">> \o strip(text)
               ELSE strip(text)]_vars

\* the fragments of at least 10 characters, and those that look incomplete
LongFragments == {text \in ResetFragments : py_len(strip(text)) >= 10}

IncompleteFragments == {text \in ResetFragments : _looks_incomplete(strip(text))}

\* C36: add_transcript with a final or speech-final fragment of at least 10
\* characters returns the fragment's text in that call when the text looks
\* complete and is no duplicate; when it looks incomplete the call returns
\* nothing and the fragment is the pending buffer.
C36_FinalCompleteReturnsAtOnce ==
  [][Logged("add_transcript") =>
       \A text \in LongFragments :
         (/\ fed'[Len(fed')].text = text
          /\ fed'[Len(fed')].is_final \/ fed'[Len(fed')].speech_final) =>
           IF text \in IncompleteFragments
             THEN emitted' = emitted /\ current_paragraph' = strip(text)
             ELSE IF _is_duplicate(strip(text))
               THEN emitted' = emitted
               ELSE emitted' = Append(emitted, Emitted(strip(text), "add_transcript"))]_vars

\* "What is REST?" came back from the first call, and "What's your approach",
\* fed next, is held back
C36_Witness ==
  /\ Len(fed) = 2
  /\ fed[1].text = T3 /\ fed[1].is_final
  /\ fed[2].text = T1 /\ fed[2].speech_final
  /\ emitted = <<Emitted(T3, "add_transcript")>>
  /\ current_paragraph = T1
  /\ waiting_for_continuation

\* C37: once the accumulated provider output starts with SKIP, the generator
\* has emitted done with has_question = false and stopped, it has emitted no
\* question and no delta event, and it consumes no further chunk.
C37_SkipPrefixEndsStream ==
  [][starts_with_skip(buf) =>
       /\ gen_state = "done"
       /\ events = <<[type |-> "done", text |-> NoQuestion.question,
                      answer |-> NoQuestion.answer, has_question |-> FALSE]>>
       /\ buf' = buf]_vars

\* prev_questions as it was when the streamed turn began: every append made
\* while forwarding goes with one question_detected message
prev_at_start ==
  SubSeq(fwd_prev, 1,
         Len(fwd_prev) - Cardinality({i \in 1..Len(fwd_sent) :
                                        fwd_sent[i].type = "question_detected"}))

C39_AcceptedFrameHasSession ==
  [][\A c \in Conns, completed \in BOOLEAN :
       (/\ transcript_accumulator[c] # None
        /\ current_session_id[c] # None
        /\ MsgTranscript(c, completed))
         => /\ get_session(current_session_id[c]) # None
            /\ loop_pc'[c] = "loop"]_vars

\* C40: once the finally block has called websocket.close(), no task enters
\* websocket.send_json: a generation task cancelled during teardown sends
\* neither answer_cancelled nor any other event.
C40_NoSendAfterClose ==
  [][at["loop"] \in {"close", "closed"} => writing' \subseteq writing]_vars

=============================================================================
